---------------------------- MODULE Spec2Model ----------------------------
(***************************************************************************)
(* tap-gmail-csv: paginated mailbox search, message resolution, resource   *)
(* filtering and the watermark-driven sync of one table.                   *)
(*                                                                         *)
(* The specifications share the variables below:                           *)
(*   SpecSearch   GmailClient._raw_search_gmail over upstream pages        *)
(*   SpecResolve  GmailClient._convert_to_message_obj over raw messages    *)
(*   SpecFilter   Message.filter over messages with optional lists         *)
(*   Spec         sync_table, run after run, against one mailbox           *)
(*   SpecSample   sample_file over the rows of the spreadsheet decoder      *)
(*   SpecScan     sample_files over a list of messages                      *)
(*   SpecFetch    Attachment.get_file and Url.get_file against the network  *)
(***************************************************************************)
EXTENDS Integers, Sequences, FiniteSets, TLC

VARIABLES
    responses,            \* upstream list responses of one search, by page
    max_search_results,   \* the cap handed to _raw_search_gmail (None or int)
    searchResult,         \* what the search yielded and the list calls it made
    rawMessage,           \* one raw users.messages resource
    messageObj,           \* the Message resolved from rawMessage
    fMessage,             \* the Message that filter() is called on
    fBefore,              \* fMessage as it was before the latest filter() call
    fPattern,             \* the pattern of the latest filter() call
    mailbox,              \* raw messages of the account, in upstream order
    tzOffset,             \* host local time minus UTC, in seconds
    afterInclusive,       \* whether the mailbox's after:<secs> includes <secs>
    state,                \* the state dict entry of the table (modified_since)
    otherTables,          \* the state dict entries of the config's other tables
    pc,                   \* position of sync_table
    run,                  \* number of the current sync_table run
    gmail_emails_list,    \* sync_table's gmail_emails_list, as the loop leaves it
    files_list,           \* sync_table's files_list: (internal_date, attachment)
    fileIdx,              \* index into files_list of the file being synced
    records_synced,       \* sync_table_file's records_synced for that file
    emitted,              \* the singer output stream: schema, record, state
    lastRun,              \* how the previous run ended and the files it had listed
    schema,               \* sync_table's schema argument: whether do_sync hands one
    table_spec,           \* the table's entry of the config, as the contract admits it
    callLog,              \* the run's client constructions and mailbox calls, in order
    sheet,                \* the worksheet behind the row iterator: header and rows
    sample_rate,          \* sample_file's sample_rate
    max_records,          \* sample_file's max_records
    sampleResult,         \* what sample_file returned and what it consumed
    scanMessages,         \* the gmail_emails_list handed to sample_files
    scanSource,           \* the table's source kind: "attachment" or "url"
    max_files,            \* sample_files' max_files
    scanResult,           \* what sample_files fetched and returned
    resource,             \* the Attachment or Url whose get_file is called
    network,              \* the calls that reached the network, in order
    fetched,              \* the outcomes of the get_file calls, in order
    pickle_base64_encoded, \* the config's credential: a base64 text of a pickle
    storage,              \* the temporary files on the host's disk, by name
    pickle_file_path,     \* create_client's pickle_file_path (0: none yet)
    clientPc,             \* position of create_client
    exits                 \* how the create_client calls ended, in order

vars == <<responses, max_search_results, searchResult, rawMessage, messageObj,
          fMessage, fBefore, fPattern, mailbox, tzOffset, afterInclusive,
          state, otherTables, pc, run, gmail_emails_list, files_list, fileIdx,
          records_synced, emitted, lastRun, schema, table_spec, callLog, sheet, sample_rate, max_records, sampleResult,
          scanMessages, scanSource, max_files, scanResult, resource, network,
          fetched, pickle_base64_encoded, storage, pickle_file_path, clientPc, exits>>

searchVars  == <<responses, max_search_results, searchResult>>
resolveVars == <<rawMessage, messageObj>>
filterVars  == <<fMessage, fBefore, fPattern>>
syncVars    == <<mailbox, tzOffset, afterInclusive, state, otherTables, pc, run, gmail_emails_list,
                 files_list, fileIdx, records_synced, emitted, lastRun, schema, table_spec,
                 callLog>>
sampleVars  == <<sheet, sample_rate, max_records, sampleResult>>
scanVars    == <<scanMessages, scanSource, max_files, scanResult>>
fetchVars   == <<resource, network, fetched>>
clientVars  == <<pickle_base64_encoded, storage, pickle_file_path, clientPc, exits>>

-----------------------------------------------------------------------------
(* Bounds of the model.                                                    *)

MaxPages == 3        \* upstream pages of one search
MaxPageLen == 3      \* references on one upstream page
MaxCap == 4          \* largest max_search_results tried

(* Python's None for an optional int, and an absent dict key.              *)
None == -1
NoToken == 0

Truthy(x) == x # None /\ x # 0

Min(a, b) == IF a <= b THEN a ELSE b

RECURSIVE Flatten(_)
Flatten(seqs) == IF seqs = <<>> THEN <<>> ELSE Head(seqs) \o Flatten(Tail(seqs))

-----------------------------------------------------------------------------
(* Search Paginator: GmailClient._raw_search_gmail.                        *)

(* The upstream: page i holds sizes[i] references, numbered in upstream    *)
(* order over all pages, and names page i+1 as its nextPageToken unless it *)
(* is the last page.                                                       *)
RECURSIVE PageStart(_, _)
PageStart(sizes, i) == IF i = 1 THEN 0 ELSE PageStart(sizes, i - 1) + sizes[i - 1]

UpstreamResponses(sizes) ==
    [i \in 1..Len(sizes) |->
        [messages |-> [k \in 1..sizes[i] |-> PageStart(sizes, i) + k],
         nextPageToken |-> IF i < Len(sizes) THEN i + 1 ELSE NoToken]]

(* _raw_gmail_list_messages: the response for a page token; the first call *)
(* carries no token.                                                       *)
RawGmailListMessages(resps, page_token) ==
    resps[IF page_token = NoToken THEN 1 ELSE page_token]

(* The inner for loop: yields the page's messages until the cap is hit.    *)
RECURSIVE YieldPage(_, _, _, _)
YieldPage(msgs, max, message_count, yielded) ==
    IF msgs = <<>>
    THEN [yielded |-> yielded, message_count |-> message_count, returned |-> FALSE]
    ELSE IF Truthy(max) /\ message_count >= max
         THEN [yielded |-> yielded, message_count |-> message_count, returned |-> TRUE]
         ELSE YieldPage(Tail(msgs), max, message_count + 1, Append(yielded, Head(msgs)))

(* A loop that also ends at a page without messages.                       *)
RECURSIVE RawSearchLoopStopsAtEmptyPage(_, _, _, _, _, _)
RawSearchLoopStopsAtEmptyPage(resps, max, response, message_count, yielded, list_calls) ==
    IF response # 0 /\ (\/ resps[response].nextPageToken = NoToken
                        \/ resps[response].messages = <<>>)
    THEN [yielded |-> yielded, list_calls |-> list_calls]
    ELSE LET page_token == IF response # 0 THEN resps[response].nextPageToken ELSE NoToken
             next == IF page_token = NoToken THEN 1 ELSE page_token
             page == YieldPage(RawGmailListMessages(resps, page_token).messages,
                               max, message_count, yielded)
         IN  IF page.returned
             THEN [yielded |-> page.yielded, list_calls |-> Append(list_calls, page_token)]
             ELSE RawSearchLoopStopsAtEmptyPage(resps, max, next, page.message_count,
                                                page.yielded, Append(list_calls, page_token))

(* The while loop: response = 0 stands for "response is None".             *)
RECURSIVE RawSearchLoop(_, _, _, _, _, _)
RawSearchLoop(resps, max, response, message_count, yielded, list_calls) ==
    IF response # 0 /\ resps[response].nextPageToken = NoToken
    THEN [yielded |-> yielded, list_calls |-> list_calls]
    ELSE LET page_token == IF response # 0 THEN resps[response].nextPageToken ELSE NoToken
             next == IF page_token = NoToken THEN 1 ELSE page_token
             page == YieldPage(RawGmailListMessages(resps, page_token).messages,
                               max, message_count, yielded)
         IN  IF page.returned
             THEN [yielded |-> page.yielded, list_calls |-> Append(list_calls, page_token)]
             ELSE RawSearchLoop(resps, max, next, page.message_count, page.yielded,
                                Append(list_calls, page_token))

RawSearchGmail(resps, max) == RawSearchLoop(resps, max, 0, 0, <<>>, <<>>)


-----------------------------------------------------------------------------
(* Strings are sequences of one-character strings; an internalDate is the  *)
(* decimal string the mailbox delivers, a sequence of digits.              *)

MaxDateSteps == 1    \* internal dates are 9999500 + 500 * k ms, k in 0..MaxDateSteps

RECURSIVE IntToStr(_)
IntToStr(n) == IF n < 10 THEN <<n>> ELSE Append(IntToStr(n \div 10), n % 10)

(* Python's int(str) on a decimal string.                                  *)
RECURSIVE PyInt(_)
PyInt(s) == IF s = <<>> THEN 0 ELSE 10 * PyInt(SubSeq(s, 1, Len(s) - 1)) + s[Len(s)]

(* Python's str < str: lexicographic, a proper prefix being smaller.       *)
RECURSIVE StrLess(_, _)
StrLess(a, b) ==
    IF b = <<>> THEN FALSE
    ELSE IF a = <<>> THEN TRUE
    ELSE IF Head(a) # Head(b) THEN Head(a) < Head(b)
    ELSE StrLess(Tail(a), Tail(b))

(* Epoch milliseconds around the step from seven to eight digits, some on *)
(* a whole second and some not.                                            *)
DateValues == {9999500 + 500 * k : k \in 0..MaxDateSteps}
InternalDates == {IntToStr(n) : n \in DateValues}

(* An Optional[List]: None, or a list that may be empty.                   *)
Absent == [present |-> FALSE, items |-> <<>>]
Present(items) == [present |-> TRUE, items |-> items]
(* Python truthiness of an Optional[List]: None and [] are both falsy.     *)
ListTruthy(l) == l.present /\ l.items # <<>>

-----------------------------------------------------------------------------
(* Message Resolver: GmailClient._convert_to_message_obj.                  *)

MaxParts == 2        \* top-level body parts of a raw message

NameCsv == <<"a", "c">>
NameTxt == <<"c", "t">>
NameLong == <<"t", "a", "c">>

(* A body part: filename ("" when none), body.attachmentId (0 when the key *)
(* is absent), mimeType, the http(s) href targets of its anchors when it   *)
(* is an HTML body, and the parts nested in it.                            *)
Part(filename, attachmentId, mimeType, hrefs, nested) ==
    [filename |-> filename, attachmentId |-> attachmentId, mimeType |-> mimeType,
     hrefs |-> hrefs, nested |-> nested]

AttachmentPart(filename, attachmentId) ==
    Part(filename, attachmentId, "application/vnd.ms-excel", <<>>, <<>>)

HtmlPart(hrefs) == Part(<<>>, 0, "text/html", hrefs, <<>>)

UrlCsv == <<"h", "a", "c">>
UrlTxt == <<"h", "c", "t">>

LeafParts ==
    {AttachmentPart(NameCsv, 1), AttachmentPart(NameTxt, 2),
     AttachmentPart(NameCsv, 0), AttachmentPart(<<>>, 3),
     HtmlPart(<<>>), HtmlPart(<<UrlCsv>>), HtmlPart(<<UrlCsv, UrlTxt>>)}

TopParts ==
    LeafParts \cup
    {Part(<<>>, 0, "multipart/alternative", <<>>, <<HtmlPart(<<UrlCsv>>), AttachmentPart(NameCsv, 4)>>)}

SeqsUpTo(S, n) == UNION {[1..k -> S] : k \in 0..n}

RawMessages ==
    {[id |-> 1, internalDate |-> d, parts |-> ps] :
        d \in InternalDates, ps \in SeqsUpTo(TopParts, MaxParts)}

Attachment(message_id, attachment_id, attachment_name) ==
    [message_id |-> message_id, attachment_id |-> attachment_id,
     attachment_name |-> attachment_name]

Url(message_id, url) == [message_id |-> message_id, url |-> url]

(* _convert_to_attachment: an Attachment when the part has a filename and  *)
(* an attachmentId, else nothing (the empty sequence here).                *)
ConvertToAttachment(message_id, part) ==
    IF part.filename # <<>> /\ part.attachmentId # 0
    THEN <<Attachment(message_id, part.attachmentId, part.filename)>>
    ELSE <<>>

(* A scan that also descends into the parts nested in a multipart part.    *)
RECURSIVE ConvertPartsNested(_, _)
ConvertPartsNested(message_id, parts) ==
    IF parts = <<>> THEN <<>>
    ELSE ConvertToAttachment(message_id, Head(parts))
         \o ConvertPartsNested(message_id, Head(parts).nested)
         \o ConvertPartsNested(message_id, Tail(parts))

RECURSIVE ConvertParts(_, _)
ConvertParts(message_id, parts) ==
    IF parts = <<>> THEN <<>>
    ELSE ConvertToAttachment(message_id, Head(parts)) \o ConvertParts(message_id, Tail(parts))

ConvertToAttachmentList(message) == ConvertParts(message.id, message.parts)

(* _convert_to_message_obj: internalDate is passed on as delivered (a      *)
(* string), download_urls is the empty list.                               *)
ConvertToMessageObj(message) ==
    [message_id |-> message.id,
     internal_date |-> message.internalDate,
     attachment_list |-> Present(ConvertToAttachmentList(message)),
     url_list |-> Present(<<>>)]

-----------------------------------------------------------------------------
(* Resource Filter: Message.filter.                                        *)

MaxList == 2         \* length of a resource list handed to filter()

(* A pattern: a literal, optionally anchored at the end ("c" or "c$").     *)
Patterns == {[lit |-> <<ch>>, anchored |-> a] : ch \in {"c", "t"}, a \in BOOLEAN}

MatchAt(pattern, s, i) ==
    /\ i + Len(pattern.lit) - 1 <= Len(s)
    /\ SubSeq(s, i, i + Len(pattern.lit) - 1) = pattern.lit
    /\ pattern.anchored => i + Len(pattern.lit) - 1 = Len(s)

(* matcher.search(s): scans the start positions from the left.             *)
RECURSIVE SearchFrom(_, _, _)
SearchFrom(pattern, s, i) ==
    IF i > Len(s) + 1 THEN FALSE
    ELSE IF MatchAt(pattern, s, i) THEN TRUE
    ELSE SearchFrom(pattern, s, i + 1)

(* re.match in place of re.search: the pattern is tried at the start only. *)
ReMatch(pattern, s) == MatchAt(pattern, s, 1)

ReSearch(pattern, s) == SearchFrom(pattern, s, 1)

RECURSIVE FilterAttachments(_, _, _)
FilterAttachments(pattern, list, filtered_list) ==
    IF list = <<>> THEN filtered_list
    ELSE FilterAttachments(pattern, Tail(list),
            IF ReSearch(pattern, Head(list).attachment_name)
            THEN Append(filtered_list, Head(list)) ELSE filtered_list)

RECURSIVE FilterUrls(_, _, _)
FilterUrls(pattern, list, filtered_list) ==
    IF list = <<>> THEN filtered_list
    ELSE FilterUrls(pattern, Tail(list),
            IF ReSearch(pattern, Head(list).url)
            THEN Append(filtered_list, Head(list)) ELSE filtered_list)

FilterAttachmentList(message, pattern) ==
    IF ListTruthy(message.attachment_list)
    THEN [message EXCEPT !.attachment_list =
            Present(FilterAttachments(pattern, message.attachment_list.items, <<>>))]
    ELSE message

(* The "if self.url_list:" check left out.                                 *)
FilterUrlListUnchecked(message, pattern) ==
    [message EXCEPT !.url_list =
        Present(FilterUrls(pattern, message.url_list.items, <<>>))]

FilterUrlList(message, pattern) ==
    IF ListTruthy(message.url_list)
    THEN [message EXCEPT !.url_list =
            Present(FilterUrls(pattern, message.url_list.items, <<>>))]
    ELSE message

MessageFilter(message, pattern) ==
    FilterUrlList(FilterAttachmentList(message, pattern), pattern)

-----------------------------------------------------------------------------
(* Ordering and the watermark conversions.                                 *)

MillisPerSecond == 1000
StartDateSec == 0
TzOffsets == {0 - 3600, 0, 3600}

(* Message.__lt__: compares the internal_date fields as they are.          *)
MessageLt(a, b) == StrLess(a.internal_date, b.internal_date)

(* list.sort(): a stable sort that only asks __lt__.                       *)
RECURSIVE InsertSorted(_, _)
InsertSorted(sorted, m) ==
    IF sorted = <<>> THEN <<m>>
    ELSE IF MessageLt(m, Head(sorted)) THEN <<m>> \o sorted
    ELSE <<Head(sorted)>> \o InsertSorted(Tail(sorted), m)

RECURSIVE ListSort(_, _)
ListSort(msgs, sorted) ==
    IF msgs = <<>> THEN sorted ELSE ListSort(Tail(msgs), InsertSorted(sorted, Head(msgs)))

(* gmail_timestamp_to_epoch_seconds: int(epoch_time_ms) / 1000 is Python's *)
(* true division; the quotient is kept exactly as whole seconds and        *)
(* thousandths.                                                            *)
GmailTimestampToEpochSeconds(epoch_time_ms) ==
    [whole |-> PyInt(epoch_time_ms) \div MillisPerSecond,
     millis |-> PyInt(epoch_time_ms) % MillisPerSecond]

(* datetime.fromtimestamp: the naive local time of an epoch instant, as    *)
(* calendar seconds since 1970-01-01T00:00:00 and microseconds.            *)
FromTimestamp(ts, offset) == [sec |-> ts.whole + offset, usec |-> ts.millis * 1000]

(* datetime.isoformat: the fraction is printed only when it is not zero.   *)
Isoformat(dt) == [sec |-> dt.sec, frac |-> IF dt.usec = 0 THEN None ELSE dt.usec]

(* dateutil.parser.parse of such a string: a naive datetime.               *)
DateutilParse(str) == [sec |-> str.sec, usec |-> IF str.frac = None THEN 0 ELSE str.frac]

(* _get_epoch_time: the naive datetime is read as UTC; int() truncates     *)
(* total_seconds() toward zero.                                            *)
GetEpochTime(dttm) == IF dttm.sec < 0 /\ dttm.usec > 0 THEN dttm.sec + 1 ELSE dttm.sec

StartDate == [sec |-> StartDateSec, frac |-> None]
EmptyState == [has |-> FALSE, modified_since |-> StartDate]

(* The state entry sync_table stores after a file of a message.            *)
StateOf(internal_date, offset) ==
    [has |-> TRUE,
     modified_since |->
        Isoformat(FromTimestamp(GmailTimestampToEpochSeconds(internal_date), offset))]

-----------------------------------------------------------------------------
(* The mailbox behind the client, and get_emails_for_table.                *)

MaxMsgs == 2         \* raw messages in the mailbox
PageSize == 1        \* references the mailbox puts on one list page
NumRows == 2         \* data rows of every file
MaxRuns == 2         \* sync_table runs over the same table

TablePattern == [lit |-> <<"c">>, anchored |-> TRUE]

PartLists ==
    {<<>>,
     <<AttachmentPart(NameCsv, 1)>>,
     <<AttachmentPart(NameTxt, 1), AttachmentPart(NameCsv, 2)>>,
     <<AttachmentPart(NameCsv, 1), AttachmentPart(NameLong, 2)>>}

Mailboxes ==
    UNION {{[i \in 1..n |-> [id |-> i, internalDate |-> ds[i], parts |-> ps[i]]] :
                ds \in [1..n -> InternalDates], ps \in [1..n -> PartLists]} :
           n \in 0..MaxMsgs}

(* The mailbox's reading of "after:<epoch seconds>".                       *)
MatchesAfter(message, epoch_search_from, inclusive) ==
    IF inclusive
    THEN PyInt(message.internalDate) >= epoch_search_from * MillisPerSecond
    ELSE PyInt(message.internalDate) > epoch_search_from * MillisPerSecond

RECURSIVE MatchingIds(_, _, _, _)
MatchingIds(box, i, epoch_search_from, inclusive) ==
    IF i > Len(box) THEN <<>>
    ELSE (IF MatchesAfter(box[i], epoch_search_from, inclusive) THEN <<i>> ELSE <<>>)
         \o MatchingIds(box, i + 1, epoch_search_from, inclusive)

RECURSIVE Chunk(_, _)
Chunk(ids, size) ==
    IF Len(ids) <= size THEN <<ids>>
    ELSE <<SubSeq(ids, 1, size)>> \o Chunk(SubSeq(ids, size + 1, Len(ids)), size)

PagedResponses(pages) ==
    [i \in 1..Len(pages) |->
        [messages |-> pages[i],
         nextPageToken |-> IF i < Len(pages) THEN i + 1 ELSE NoToken]]

(* GmailClient._get_messages: one message get and one conversion per       *)
(* reference, in the order yielded.                                        *)
GetMessages(box, refs) == [k \in 1..Len(refs) |-> ConvertToMessageObj(box[refs[k]])]

(* GmailClient.search, without a cap.                                      *)
ClientSearch(box, epoch_search_from, inclusive) ==
    GetMessages(box,
        RawSearchGmail(
            PagedResponses(Chunk(MatchingIds(box, 1, epoch_search_from, inclusive), PageSize)),
            None).yielded)

GetOrderedMessages(box, epoch_search_from, inclusive) ==
    ListSort(ClientSearch(box, epoch_search_from, inclusive), <<>>)

GetEmailsForTable(box, modified_since, inclusive) ==
    GetOrderedMessages(box, GetEpochTime(modified_since), inclusive)

(* The first loop of sync_table: message.filter(pattern) on each message   *)
(* in place, then its attachments are listed.                              *)
FilterMessages(emails, pattern) ==
    [k \in 1..Len(emails) |-> MessageFilter(emails[k], pattern)]

RECURSIVE BuildFilesList(_)
BuildFilesList(filtered) ==
    IF filtered = <<>> THEN <<>>
    ELSE LET message == Head(filtered)
             atts == IF ListTruthy(message.attachment_list)
                     THEN message.attachment_list.items ELSE <<>>
         IN  [k \in 1..Len(atts) |-> [internal_date |-> message.internal_date, att |-> atts[k]]]
             \o BuildFilesList(Tail(filtered))

-----------------------------------------------------------------------------
(* The spreadsheet decoder (excel_handler.generator_wrapper) and           *)
(* sample_file.                                                            *)

MaxHeaderLen == 3    \* characters of a header cell's text
MaxSheetRows == 4    \* data rows of a worksheet
MaxRate == 3         \* largest sample_rate tried
MaxRecords == 3      \* largest max_records tried

(* The characters of header cells: word characters ("A", "b", "_"),        *)
(* whitespace (" ") and a character that is neither ("#").                 *)
HeaderChars == {"A", "b", " ", "#"}
IsWordChar(c) == c \in {"A", "a", "b", "_"}
IsSpaceChar(c) == c = " "
LowerChar(c) == IF c = "A" THEN "a" ELSE c

(* re.sub(r"[^\w\s]", "", key)                                             *)
RemoveNonWordNonSpace(key) ==
    SelectSeq(key, LAMBDA c : IsWordChar(c) \/ IsSpaceChar(c))

(* re.sub(r"\s+", "_", key): each maximal run of whitespace becomes "_".   *)
RECURSIVE ReplaceWhitespaceRuns(_)
ReplaceWhitespaceRuns(key) ==
    IF key = <<>> THEN <<>>
    ELSE IF IsSpaceChar(Head(key))
         THEN IF Len(key) > 1 /\ IsSpaceChar(key[2])
              THEN ReplaceWhitespaceRuns(Tail(key))
              ELSE <<"_">> \o ReplaceWhitespaceRuns(Tail(key))
         ELSE <<Head(key)>> \o ReplaceWhitespaceRuns(Tail(key))

(* str.lower()                                                             *)
Lower(key) == [i \in 1..Len(key) |-> LowerChar(key[i])]

(* The same steps with the whitespace replaced before the other            *)
(* characters are removed.                                                 *)
FormattedKeyWhitespaceFirst(header_value) ==
    Lower(RemoveNonWordNonSpace(ReplaceWhitespaceRuns(header_value)))

(* generator_wrapper, lines 20-28: the field name of a header cell.        *)
FormattedKey(header_value) ==
    Lower(ReplaceWhitespaceRuns(RemoveNonWordNonSpace(header_value)))

(* to_return[key] = value on a dict.                                       *)
DictSet(d, key, value) ==
    [k \in (DOMAIN d) \cup {key} |-> IF k = key THEN value ELSE d[k]]

(* The inner loop of generator_wrapper: the cells of one row are stored    *)
(* into to_return, from the cell at index on.                              *)
RECURSIVE StoreRow(_, _, _, _)
StoreRow(to_return, header_row, row, index) ==
    IF index > Len(row) THEN to_return
    ELSE StoreRow(DictSet(to_return, FormattedKey(header_row[index]), row[index]),
                  header_row, row, index + 1)

(* The empty dict generator_wrapper creates once, before its loop.         *)
EmptyDict == [k \in {} |-> 0]

(* One resumption of generator_wrapper after the header row: the next row  *)
(* is stored into the one dict to_return, which is then yielded.           *)
NextRow(to_return, header_row, row) == StoreRow(to_return, header_row, row, 1)

(* sample_file's loop over the row iterator. samples holds, per kept row,  *)
(* the number of the row it was yielded for; every kept row is the object  *)
(* to_return, so after the loop each of them shows what to_return holds    *)
(* then. yielded holds what each row held when it was yielded.             *)
RECURSIVE SampleLoop(_, _, _, _, _, _, _)
SampleLoop(ws, rate, max, current_row, samples, to_return, yielded) ==
    IF current_row >= Len(ws.rows)
    THEN [samples |-> samples, consumed |-> current_row,
          to_return |-> to_return, yielded |-> yielded]
    ELSE LET row == NextRow(to_return, ws.header, ws.rows[current_row + 1])
             kept == IF current_row % rate = 0
                     THEN Append(samples, current_row) ELSE samples
         IN  IF Len(kept) >= max
             THEN [samples |-> kept, consumed |-> current_row + 1,
                   to_return |-> row, yielded |-> Append(yielded, row)]
             ELSE SampleLoop(ws, rate, max, current_row + 1, kept, row,
                             Append(yielded, row))

(* sample_file: the list it returns, as its caller reads it.               *)
SampleFile(ws, rate, max) ==
    LET r == SampleLoop(ws, rate, max, 0, <<>>, EmptyDict, <<>>)
    IN  [done |-> TRUE,
         samples |-> [k \in 1..Len(r.samples) |-> r.to_return],
         kept |-> r.samples,
         consumed |-> r.consumed,
         yielded |-> r.yielded]

(* Worksheets: xlrd pads every row to the sheet's column count; the cell   *)
(* in data row r and column c holds 10 r + c, so no two cells are equal.   *)
HeaderTexts == SeqsUpTo(HeaderChars, MaxHeaderLen)
SecondHeaders == {<<"b">>, <<"A", " ", "b">>}
HeaderRows ==
    {<<h>> : h \in HeaderTexts} \cup {<<h, g>> : h \in HeaderTexts, g \in SecondHeaders}
SheetRows(ncols, nrows) == [r \in 1..nrows |-> [c \in 1..ncols |-> 10 * r + c]]
Sheets ==
    {[header |-> h, rows |-> SheetRows(Len(h), n)] : h \in HeaderRows, n \in 0..MaxSheetRows}

-----------------------------------------------------------------------------
(* sample_files: the scan of the Schema Sampler over a list of messages.   *)

MaxScanMsgs == 2     \* messages handed to sample_files
MaxFiles == 3        \* largest max_files tried

(* The defaults of sample_files' keyword arguments.                        *)
DefaultSampleRate == 10
DefaultMaxRecords == 1000
DefaultMaxFiles == 5

(* The worksheet of every file of the mailbox: one column, NumRows rows.   *)
FileSheet == [header |-> <<<<"b">>>>, rows |-> SheetRows(1, NumRows)]

(* What one sampled file adds to to_return: its sampled rows, each marked  *)
(* with the resource it was read from.                                     *)
SampledRows(att, rate, max) ==
    LET r == SampleFile(FileSheet, rate, max)
    IN  [k \in 1..Len(r.kept) |-> [resource |-> att, index |-> r.kept[k]]]

(* A scan whose count of sampled files starts again with every message.    *)
RECURSIVE ScanLoopPerMessage(_, _, _, _, _, _, _, _)
ScanLoopPerMessage(msgs, pattern, max, m, a, files_so_far, fetches, to_return) ==
    IF m > Len(msgs)
    THEN [done |-> TRUE, raised |-> FALSE, fetches |-> fetches, to_return |-> to_return]
    ELSE LET list == msgs[m].attachment_list
         IN  IF ~list.present
             THEN [done |-> TRUE, raised |-> TRUE, fetches |-> fetches, to_return |-> to_return]
             ELSE IF a > Len(list.items)
             THEN ScanLoopPerMessage(msgs, pattern, max, m + 1, 1, 0, fetches, to_return)
             ELSE IF ReSearch(pattern, list.items[a].attachment_name)
             THEN LET rows == SampledRows(list.items[a], DefaultSampleRate, DefaultMaxRecords)
                  IN  IF files_so_far + 1 >= max
                      THEN ScanLoopPerMessage(msgs, pattern, max, m + 1, 1, 0,
                               Append(fetches, list.items[a]), to_return \o rows)
                      ELSE ScanLoopPerMessage(msgs, pattern, max, m, a + 1, files_so_far + 1,
                               Append(fetches, list.items[a]), to_return \o rows)
             ELSE ScanLoopPerMessage(msgs, pattern, max, m, a + 1, files_so_far, fetches, to_return)

(* The two loops of sample_files, at attachment a of message m. Iterating  *)
(* an attachment_list that is None raises TypeError. fetches lists the     *)
(* resources whose get_file was called.                                    *)
RECURSIVE ScanLoop(_, _, _, _, _, _, _, _)
ScanLoop(msgs, pattern, max, m, a, files_so_far, fetches, to_return) ==
    IF m > Len(msgs)
    THEN [done |-> TRUE, raised |-> FALSE, fetches |-> fetches, to_return |-> to_return]
    ELSE LET list == msgs[m].attachment_list
         IN  IF ~list.present
             THEN [done |-> TRUE, raised |-> TRUE, fetches |-> fetches, to_return |-> to_return]
             ELSE IF a > Len(list.items)
             THEN IF files_so_far >= max
                  THEN [done |-> TRUE, raised |-> FALSE, fetches |-> fetches,
                        to_return |-> to_return]
                  ELSE ScanLoop(msgs, pattern, max, m + 1, 1, files_so_far, fetches, to_return)
             ELSE IF ReSearch(pattern, list.items[a].attachment_name)
             THEN LET rows == SampledRows(list.items[a], DefaultSampleRate, DefaultMaxRecords)
                  IN  IF files_so_far + 1 >= max
                      THEN [done |-> TRUE, raised |-> FALSE,
                            fetches |-> Append(fetches, list.items[a]),
                            to_return |-> to_return \o rows]
                      ELSE ScanLoop(msgs, pattern, max, m, a + 1, files_so_far + 1,
                               Append(fetches, list.items[a]), to_return \o rows)
             ELSE ScanLoop(msgs, pattern, max, m, a + 1, files_so_far, fetches, to_return)

(* sample_files: the table's source kind is not among what it reads.       *)
SampleFiles(table_pattern, emails, max) ==
    ScanLoop(emails, table_pattern, max, 1, 1, 0, <<>>, <<>>)

(* Messages as sample_files may be handed them: the attachment list        *)
(* absent, empty or filled with names that match the table pattern or do   *)
(* not, the URL list absent or holding a matching URL.                     *)
ScanNames == {NameCsv, NameTxt}
ScanUrlLists == {Absent, Present(<<UrlCsv>>)}
ScanNameLists == {Absent} \cup {Present(l) : l \in SeqsUpTo(ScanNames, MaxList)}

ScanMessage(id, names, urls) ==
    [message_id |-> id,
     internal_date |-> IntToStr(9999500 + id),
     attachment_list |->
        [present |-> names.present,
         items |-> [k \in 1..Len(names.items) |-> Attachment(id, k, names.items[k])]],
     url_list |->
        [present |-> urls.present,
         items |-> [k \in 1..Len(urls.items) |-> Url(id, urls.items[k])]]]

ScanMessageLists(n) ==
    {[i \in 1..n |-> ScanMessage(i, ns[i], us[i])] :
        ns \in [1..n -> ScanNameLists], us \in [1..n -> ScanUrlLists]}

-----------------------------------------------------------------------------
(* The File Retriever: Attachment.get_file and Url.get_file.               *)

MaxFetches == 2      \* get_file calls on one resource

(* Strings are sequences of characters. str.strip(): the whitespace at     *)
(* both ends is removed.                                                   *)
RECURSIVE LStrip(_)
LStrip(s) == IF s # <<>> /\ Head(s) = " " THEN LStrip(Tail(s)) ELSE s

RECURSIVE RStrip(_)
RStrip(s) ==
    IF s # <<>> /\ s[Len(s)] = " " THEN RStrip(SubSeq(s, 1, Len(s) - 1)) ELSE s

Strip(s) == RStrip(LStrip(s))

(* The position of the first occurrence of sub in s from position i on, 0  *)
(* when there is none.                                                     *)
RECURSIVE Find(_, _, _)
Find(s, sub, i) ==
    IF i + Len(sub) - 1 > Len(s) THEN 0
    ELSE IF SubSeq(s, i, i + Len(sub) - 1) = sub THEN i
    ELSE Find(s, sub, i + 1)

(* The position of the last occurrence of the character c in s, 0 when     *)
(* there is none.                                                          *)
RECURSIVE RFind(_, _, _)
RFind(s, c, i) ==
    IF i = 0 THEN 0 ELSE IF s[i] = c THEN i ELSE RFind(s, c, i - 1)

(* str.split(sep) for a one-character separator.                           *)
RECURSIVE Split(_, _)
Split(s, sep) ==
    LET p == Find(s, <<sep>>, 1)
    IN  IF p = 0 THEN <<s>>
        ELSE <<SubSeq(s, 1, p - 1)>> \o Split(SubSeq(s, p + 1, Len(s)), sep)

(* str.rsplit(sep, 1)                                                      *)
RSplitOnce(s, sep) ==
    LET p == RFind(s, sep, Len(s))
    IN  IF p = 0 THEN <<s>> ELSE <<SubSeq(s, 1, p - 1), SubSeq(s, p + 1, Len(s))>>

FilenameToken == <<"f", "i", "l", "e", "n", "a", "m", "e", "=">>

(* re.findall("filename=(.+)", chunk): the leftmost "filename=" that is    *)
(* followed by at least one character, and all that follows it.            *)
FindallFilename(chunk) ==
    LET p == Find(chunk, FilenameToken, 1)
    IN  IF p = 0 \/ p + Len(FilenameToken) > Len(chunk) THEN <<>>
        ELSE <<SubSeq(chunk, p + Len(FilenameToken), Len(chunk))>>

(* A header that is absent, and a present one.                             *)
NoHeader == [present |-> FALSE, value |-> <<>>]
Header(value) == [present |-> TRUE, value |-> value]

(* A name that could not be found (Python's None for Optional[str]).       *)
NoName == [found |-> FALSE, name |-> <<>>]
Name(name) == [found |-> TRUE, name |-> name]

(* The loop of _get_filename_from_headers over the chunks.                 *)
RECURSIVE FilenameFromChunks(_)
FilenameFromChunks(chunks) ==
    IF chunks = <<>> THEN NoName
    ELSE LET file_name == FindallFilename(Head(chunks))
         IN  IF Len(file_name) > 0 THEN Name(Strip(file_name[1]))
             ELSE FilenameFromChunks(Tail(chunks))

(* Url._get_filename_from_headers                                          *)
GetFilenameFromHeaders(headers) ==
    LET content_disposition == headers.content_disposition
    IN  IF content_disposition.present /\ content_disposition.value # <<>>
        THEN FilenameFromChunks(Split(content_disposition.value, ";"))
        ELSE NoName

(* Url._get_filename_from_url                                              *)
GetFilenameFromUrl(url) ==
    LET right_portion == RSplitOnce(url, "/")
    IN  IF Len(right_portion) = 2
        THEN LET file_name_portion == Strip(Split(right_portion[2], "?")[1])
             IN  IF Len(file_name_portion) = 0 THEN NoName ELSE Name(file_name_portion)
        ELSE NoName

(* SUPPORTED_MIME_TYPES, in the order of its keys.                         *)
Extensions == <<"csv", "xls", "xlsx", "zip">>
SUPPORTED_MIME_TYPES ==
    [extension \in {"csv", "xls", "xlsx", "zip"} |->
        CASE extension = "csv" -> <<"text/csv", "text/plain">>
          [] extension = "xls" -> <<"application/excel", "application/vnd.ms-excel",
                                    "application/x-excel", "application/x-msexcel">>
          [] extension = "xlsx" ->
                <<"application/vnd.openxmlformats-officedocument.spreadsheetml.sheet">>
          [] extension = "zip" -> <<"application/zip", "application/x-compressed",
                                    "application/x-zip-compressed", "multipart/x-zip">>]

(* The characters of an extension.                                         *)
ExtensionChars(extension) ==
    CASE extension = "csv" -> <<"c", "s", "v">>
      [] extension = "xls" -> <<"x", "l", "s">>
      [] extension = "xlsx" -> <<"x", "l", "s", "x">>
      [] extension = "zip" -> <<"z", "i", "p">>

(* A content-type value is a sequence of segments: a media type and what   *)
(* follows it. str.lower() on a segment.                                   *)
LowerSegment(segment) ==
    CASE segment = "TEXT/CSV" -> "text/csv"
      [] segment = "Application/Zip" -> "application/zip"
      [] OTHER -> segment

(* mime_type in content_type                                               *)
MimeIn(mime_type, content_type) ==
    \E k \in 1..Len(content_type) : content_type[k] = mime_type

(* The loops of _check_url_file_type: the inner one stops at the first     *)
(* media type found, the outer one goes on over all extensions.            *)
RECURSIVE CheckExtensions(_, _, _)
CheckExtensions(content_type, e, file_type) ==
    IF e > Len(Extensions) THEN file_type
    ELSE LET extension == Extensions[e]
             mimes == SUPPORTED_MIME_TYPES[extension]
         IN  IF \E k \in 1..Len(mimes) : MimeIn(mimes[k], content_type)
             THEN CheckExtensions(content_type, e + 1, extension)
             ELSE CheckExtensions(content_type, e + 1, file_type)

(* Url._check_url_file_type: "" stands for None.                           *)
CheckUrlFileType(headers) ==
    LET content_type ==
            IF headers.content_type.present
            THEN [k \in 1..Len(headers.content_type.value) |->
                     LowerSegment(headers.content_type.value[k])]
            ELSE <<>>
    IN  CheckExtensions(content_type, 1, "")

(* An extension step that appends without looking at the name.             *)
AddFileExtensionAlways(file_name, extension) ==
    Strip(file_name) \o <<".">> \o ExtensionChars(extension)

(* Url._add_file_extension: fname[slice_offset:] is the whole of fname     *)
(* when fname is shorter than the slice.                                   *)
AddFileExtension(file_name, extension) ==
    LET fname == Strip(file_name)
        suffix == <<".">> \o ExtensionChars(extension)
        from == IF Len(fname) > Len(suffix) THEN Len(fname) - Len(suffix) + 1 ELSE 1
    IN  IF SubSeq(fname, from, Len(fname)) # suffix THEN fname \o suffix ELSE fname

(* Url._get_file_name without its header request: the resolved name, the   *)
(* name before the extension step and the file type, or the raise of       *)
(* FileNameCannotBeEvaluatedException.                                     *)
GetFileName(url, headers) ==
    LET file_type == CheckUrlFileType(headers)
        from_headers == GetFilenameFromHeaders(headers)
        file_name == IF ~from_headers.found \/ from_headers.name = <<>>
                     THEN GetFilenameFromUrl(url) ELSE from_headers
    IN  IF ~file_name.found
        THEN [raised |-> TRUE, file_name |-> <<>>, resolved |-> <<>>,
              file_type |-> file_type]
        ELSE [raised |-> FALSE,
              file_name |-> IF file_type # ""
                            THEN AddFileExtension(file_name.name, file_type)
                            ELSE file_name.name,
              resolved |-> file_name.name,
              file_type |-> file_type]

(* The calls a get_file puts on the network.                               *)
NetworkCall(op, target) == [op |-> op, target |-> target]

(* A Url.get_file that downloads before it asks for the headers.           *)
UrlGetFileCallsGetFirst(u, name) ==
    IF name.raised THEN <<NetworkCall("HEAD", u.url)>>
    ELSE <<NetworkCall("GET", u.url), NetworkCall("HEAD", u.url)>>

(* A Url.get_file that downloads the body before it resolves the name.     *)
UrlGetFileCallsDownloadFirst(u, name) ==
    <<NetworkCall("GET", u.url), NetworkCall("HEAD", u.url)>>

(* Url.get_file: requests.head in _get_file_name, then, unless the name    *)
(* could not be evaluated, requests.get in _download_from_url.             *)
UrlGetFileCalls(u, name) ==
    IF name.raised THEN <<NetworkCall("HEAD", u.url)>>
    ELSE <<NetworkCall("HEAD", u.url), NetworkCall("GET", u.url)>>

(* Attachment.get_file: one users.messages.attachments.get, unless no      *)
(* client was given.                                                       *)
AttachmentGetFileCalls(a, has_client) ==
    IF has_client
    THEN <<NetworkCall("attachments.get", <<a.message_id, a.attachment_id>>)>>
    ELSE <<>>

(* The URLs, content-disposition and content-type headers tried.           *)
FetchUrls ==
    {<<"h", ":", "/", "d", "/", "a", ".", "c", "s", "v">>,
     <<"h", ":", "/", "d", "/", "a", ".", "c", "s", "v", "?", "x", "=", "1">>,
     <<"h", ":", "/", "d", "/", "a", "?", "r", "=", "/", "b">>,
     <<"h", ":", "/", "d", "/">>,
     <<"h", ":", "/", "d", "/", " ", "?", "x">>,
     <<"h", "d">>,
     <<"a", ".", "x", "l", "s">>}

Dispositions ==
    {<<>>,
     <<"i", "n", "l", "i", "n", "e">>,
     <<"a", "t", "t", "a", "c", "h", "m", "e", "n", "t", ";", " ", "f", "i", "l", "e", "n", "a", "m", "e", "=", "b", ".", "c", "s", "v">>,
     <<"a", "t", "t", "a", "c", "h", "m", "e", "n", "t", ";", "f", "i", "l", "e", "n", "a", "m", "e", "=", " ", "b", " ", ";", "x", "=", "1">>,
     <<"f", "i", "l", "e", "n", "a", "m", "e", "=">>,
     <<"f", "i", "l", "e", "n", "a", "m", "e", "=", " ">>,
     <<"x", ";", "f", "i", "l", "e", "n", "a", "m", "e", "=", "b", ".", "z", "i", "p", ";", "f", "i", "l", "e", "n", "a", "m", "e", "=", "c">>,
     <<"f", "i", "l", "e", "n", "a", "m", "e", "=", "\"", "b", ".", "c", "s", "v", "\"">>}

ContentTypes ==
    {<<>>, <<"text/csv">>, <<"TEXT/CSV", "; charset=utf-8">>, <<"text/plain">>,
     <<"application/vnd.ms-excel">>,
     <<"application/vnd.openxmlformats-officedocument.spreadsheetml.sheet">>,
     <<"Application/Zip">>, <<"text/html">>}

HeaderSets ==
    {[content_disposition |-> cd, content_type |-> ct] :
        cd \in {NoHeader} \cup {Header(v) : v \in Dispositions},
        ct \in {NoHeader} \cup {Header(v) : v \in ContentTypes}}

(* A Url with the headers its server answers with, and an Attachment.      *)
UrlResources ==
    {[kind |-> "url", message_id |-> 1, url |-> u, headers |-> h] :
        u \in FetchUrls, h \in HeaderSets}

AttachmentResources ==
    {[kind |-> "attachment", message_id |-> 1, attachment_id |-> k, attachment_name |-> n] :
        k \in 1..2, n \in {NameCsv, NameTxt}}

-----------------------------------------------------------------------------
(* Values of the variables a specification does not use.                   *)

NoSearchResult == [done |-> FALSE, yielded |-> <<>>, list_calls |-> <<>>]
NoRawMessage == [id |-> 1, internalDate |-> <<9, 9, 9, 9, 5, 0, 0>>, parts |-> <<>>]
NoMessage == [message_id |-> 0, internal_date |-> <<>>,
              attachment_list |-> Absent, url_list |-> Absent]
NoMessageObj == [resolved |-> FALSE, message |-> NoMessage]
NoBefore == [called |-> FALSE, message |-> NoMessage]
NoPattern == [lit |-> <<>>, anchored |-> FALSE]

SearchIdle ==
    /\ responses = <<>>
    /\ max_search_results = None
    /\ searchResult = NoSearchResult

ResolveIdle ==
    /\ rawMessage = NoRawMessage
    /\ messageObj = NoMessageObj

FilterIdle ==
    /\ fMessage = NoMessage
    /\ fBefore = NoBefore
    /\ fPattern = NoPattern

NoRun == [outcome |-> "none", files_list |-> <<>>, fileIdx |-> 0]
NoSheet == [header |-> <<>>, rows |-> <<>>]
NoSampleResult ==
    [done |-> FALSE, samples |-> <<>>, kept |-> <<>>, consumed |-> 0, yielded |-> <<>>]
NoScanResult == [done |-> FALSE, raised |-> FALSE, fetches |-> <<>>, to_return |-> <<>>]
NoResource == [kind |-> "none"]

SyncIdle ==
    /\ mailbox = <<>>
    /\ tzOffset = 0
    /\ afterInclusive = TRUE
    /\ state = EmptyState
    /\ otherTables = <<>>
    /\ pc = "off"
    /\ run = 0
    /\ gmail_emails_list = <<>>
    /\ files_list = <<>>
    /\ fileIdx = 0
    /\ records_synced = 0
    /\ emitted = <<>>
    /\ lastRun = NoRun
    /\ schema = FALSE
    /\ table_spec = [source |-> "attachment"]
    /\ callLog = <<>>

SampleIdle ==
    /\ sheet = NoSheet
    /\ sample_rate = 1
    /\ max_records = 1
    /\ sampleResult = NoSampleResult

ScanIdle ==
    /\ scanMessages = <<>>
    /\ scanSource = "attachment"
    /\ max_files = 1
    /\ scanResult = NoScanResult

ClientIdle ==
    /\ pickle_base64_encoded = "valid"
    /\ storage = {}
    /\ pickle_file_path = 0
    /\ clientPc = "off"
    /\ exits = <<>>

FetchIdle ==
    /\ resource = NoResource
    /\ network = <<>>
    /\ fetched = <<>>

-----------------------------------------------------------------------------
(* SpecSearch: one call of _raw_search_gmail, consumed to the end.         *)

PageSizes == UNION {[1..n -> 0..MaxPageLen] : n \in 1..MaxPages}

InitSearch ==
    /\ responses \in {UpstreamResponses(sizes) : sizes \in PageSizes}
    /\ max_search_results \in {None} \cup (0..MaxCap)
    /\ searchResult = NoSearchResult
    /\ ResolveIdle /\ FilterIdle /\ SyncIdle
    /\ SampleIdle /\ ScanIdle /\ FetchIdle
    /\ ClientIdle

RawSearch ==
    /\ ~searchResult.done
    /\ responses # <<>>
    /\ LET r == RawSearchGmail(responses, max_search_results)
       IN  searchResult' = [done |-> TRUE, yielded |-> r.yielded, list_calls |-> r.list_calls]
    /\ UNCHANGED <<responses, max_search_results, resolveVars, filterVars, syncVars,
                   sampleVars, scanVars, fetchVars, clientVars>>

NextSearch == RawSearch

SpecSearch == InitSearch /\ [][NextSearch]_vars

(* The caller consumes the generator to its end: list(messages) in         *)
(* _get_ordered_messages keeps resuming it.                                *)
SpecSearchLive == SpecSearch /\ WF_vars(RawSearch)

-----------------------------------------------------------------------------
(* SpecResolve: one raw message resolved into a Message.                   *)

InitResolve ==
    /\ rawMessage \in RawMessages
    /\ messageObj = NoMessageObj
    /\ SearchIdle /\ FilterIdle /\ SyncIdle
    /\ SampleIdle /\ ScanIdle /\ FetchIdle
    /\ ClientIdle

Resolve ==
    /\ ~messageObj.resolved
    /\ messageObj' = [resolved |-> TRUE, message |-> ConvertToMessageObj(rawMessage)]
    /\ UNCHANGED <<rawMessage, searchVars, filterVars, syncVars,
                   sampleVars, scanVars, fetchVars, clientVars>>

NextResolve == Resolve

SpecResolve == InitResolve /\ [][NextResolve]_vars

-----------------------------------------------------------------------------
(* SpecFilter: filter() called any number of times on one Message.         *)

AttachmentPool == {Attachment(1, k, n) : k \in {1}, n \in {NameCsv, NameTxt, NameLong}}
UrlPool == {Url(1, u) : u \in {UrlCsv, UrlTxt}}

OptionalLists(S) == {Absent} \cup {Present(l) : l \in SeqsUpTo(S, MaxList)}

InitFilter ==
    /\ fMessage \in {[message_id |-> 1, internal_date |-> <<9, 9, 9, 9, 5, 0, 0>>,
                      attachment_list |-> al, url_list |-> ul] :
                        al \in OptionalLists(AttachmentPool), ul \in OptionalLists(UrlPool)}
    /\ fBefore = NoBefore
    /\ fPattern = NoPattern
    /\ SearchIdle /\ ResolveIdle /\ SyncIdle
    /\ SampleIdle /\ ScanIdle /\ FetchIdle
    /\ ClientIdle

Filter ==
    \E regex_pattern \in Patterns :
        /\ fPattern' = regex_pattern
        /\ fBefore' = [called |-> TRUE, message |-> fMessage]
        /\ fMessage' = MessageFilter(fMessage, regex_pattern)
        /\ UNCHANGED <<searchVars, resolveVars, syncVars,
                   sampleVars, scanVars, fetchVars, clientVars>>

NextFilter == Filter

SpecFilter == InitFilter /\ [][NextFilter]_vars

-----------------------------------------------------------------------------
(* Spec: sync_table for one table, run after run. A run that raised or     *)
(* returned is followed by the next run, which starts from the state the   *)
(* previous one left.                                                      *)

SchemaMessage(r) ==
    [run |-> r, type |-> "SCHEMA", message_id |-> 0, attachment_id |-> 0,
     lineno |-> 0, value |-> EmptyState]

RecordMessage(r, att, lineno) ==
    [run |-> r, type |-> "RECORD", message_id |-> att.message_id,
     attachment_id |-> att.attachment_id, lineno |-> lineno, value |-> EmptyState]

StateMessage(r, value) ==
    [run |-> r, type |-> "STATE", message_id |-> 0, attachment_id |-> 0,
     lineno |-> 0, value |-> value]

(* An entry of the run's call log. The k-th client that create_client     *)
(* builds in a run has handle k; a mailbox call names the handle it went   *)
(* through; ok tells whether the call returned or raised.                  *)
CreateClient(handle) ==
    [op |-> "create_client", client |-> handle, arg |-> <<>>, ok |-> TRUE]

MailboxCall(op, handle, arg) == [op |-> op, client |-> handle, arg |-> arg, ok |-> TRUE]

ClientsCreated(log) == Cardinality({k \in 1..Len(log) : log[k].op = "create_client"})

(* GmailClient.search consumed to the end through one client: the chain of *)
(* generators issues each list call, then one message get per reference of *)
(* that page, before the next list call.                                   *)
SearchCalls(handle, box, epoch_search_from, inclusive) ==
    LET resps == PagedResponses(Chunk(MatchingIds(box, 1, epoch_search_from, inclusive),
                                      PageSize))
        tokens == RawSearchGmail(resps, None).list_calls
    IN  Flatten([k \in 1..Len(tokens) |->
            LET refs == RawGmailListMessages(resps, tokens[k]).messages
            IN  <<MailboxCall("list", handle, <<tokens[k]>>)>>
                \o [j \in 1..Len(refs) |-> MailboxCall("get", handle, <<refs[j]>>)]])

(* get_emails_for_table called without a client: it creates its own.       *)
GetEmailsForTableCalls(handle, box, modified_since, inclusive) ==
    <<CreateClient(handle)>>
    \o SearchCalls(handle, box, GetEpochTime(modified_since), inclusive)

(* Attachment.get_file(client): one attachments.get through the client.    *)
AttachmentCall(handle, att) ==
    MailboxCall("attachment", handle, <<att.message_id, att.attachment_id>>)

(* get_sampled_schema_for_table: the table is searched again from the      *)
(* start date through a client of its own, and sample_files creates one    *)
(* more to fetch the files it samples.                                     *)
SampledSchemaCalls(handle, box, inclusive) ==
    LET start == DateutilParse(StartDate)
        sampled == SampleFiles(TablePattern, GetEmailsForTable(box, start, inclusive),
                               DefaultMaxFiles)
    IN  GetEmailsForTableCalls(handle, box, start, inclusive)
        \o <<CreateClient(handle + 1)>>
        \o [k \in 1..Len(sampled.fetches) |-> AttachmentCall(handle + 1, sampled.fetches[k])]

(* The calls up to the n-th, which raises.                                 *)
FailAt(log, n) == SubSeq(log, 1, n - 1) \o <<[log[n] EXCEPT !.ok = FALSE]>>

(* The same, with the raising call attempted a second time.                *)
FailAtRetried(log, n) == FailAt(log, n) \o <<[log[n] EXCEPT !.ok = FALSE]>>

IsMailboxCall(c) == c.op \in {"list", "get", "attachment"}

MailboxCallsOf(log) == {n \in 1..Len(log) : IsMailboxCall(log[n])}

(* The names of the tables of the config; sync_table is followed for the   *)
(* table TableName, the entries of the others lie in the same state dict.  *)
TableName == "orders"

TableNames == {"orders", "refunds"}

(* What another table's entry holds when sync_table is called: nothing, or *)
(* the watermark an earlier sync_table call of do_sync's loop stored.      *)
OtherTableEntries == {EmptyState, StateOf(IntToStr(MillisPerSecond), 0)}

(* The state dict do_sync hands to sync_table, by table name.              *)
StateDict(table_name, entry, others) ==
    [t \in TableNames |-> IF t = table_name THEN entry ELSE others[t]]

(* A state dict rebuilt with the one entry instead of updated in place.    *)
SetItemOfAFreshDict(dict, key, value) ==
    [t \in DOMAIN dict |-> IF t = key THEN value ELSE EmptyState]

(* state[table_name] = {...}: the item assignment of sync_table.           *)
SetItem(dict, key, value) ==
    [dict EXCEPT ![key] = value]

(* The tables the config contract admits: source is required and is       *)
(* attachment or url; the contract accepts no key named source_type.       *)
TableSpecs == {[name |-> TableName, source |-> "attachment"],
               [name |-> TableName, source |-> "url"]}

(* sync_table: table_spec.get("source_type", "attachment").                *)
SourceType(spec) ==
    IF "source_type" \in DOMAIN spec THEN spec.source_type ELSE "attachment"

(* The first loop of sync_table: only attachment tables are filtered and   *)
(* listed; the loop has no branch for another source type.                 *)
FilesOfTable(emails, source_type) ==
    IF source_type = "attachment"
    THEN [emails_list |-> FilterMessages(emails, TablePattern),
          files_list |-> BuildFilesList(FilterMessages(emails, TablePattern))]
    ELSE [emails_list |-> emails, files_list |-> <<>>]

Init ==
    /\ mailbox \in Mailboxes
    /\ tzOffset \in TzOffsets
    /\ afterInclusive \in BOOLEAN
    /\ state = EmptyState
    /\ otherTables \in [TableNames \ {TableName} -> OtherTableEntries]
    /\ pc = "start"
    /\ run = 1
    /\ gmail_emails_list = <<>>
    /\ files_list = <<>>
    /\ fileIdx = 0
    /\ records_synced = 0
    /\ emitted = <<>>
    /\ lastRun = NoRun
    /\ schema \in BOOLEAN
    /\ table_spec \in TableSpecs
    /\ callLog = <<>>
    /\ SearchIdle /\ ResolveIdle /\ FilterIdle
    /\ SampleIdle /\ ScanIdle /\ FetchIdle
    /\ ClientIdle

(* sync_table up to the schema: read the state, search, sort, filter.      *)
CollectFiles ==
    /\ pc = "start"
    /\ LET modified_since == DateutilParse(state.modified_since)
           gmail_emails == GetEmailsForTable(mailbox, modified_since, afterInclusive)
           searched == GetEmailsForTableCalls(1, mailbox, modified_since, afterInclusive)
       IN  IF gmail_emails = <<>>
           THEN /\ gmail_emails_list' = gmail_emails
                /\ files_list' = <<>>
                /\ callLog' = searched
                /\ pc' = "done"
           ELSE /\ gmail_emails_list' =
                        FilesOfTable(gmail_emails, SourceType(table_spec)).emails_list
                /\ files_list' =
                        FilesOfTable(gmail_emails, SourceType(table_spec)).files_list
                /\ callLog' = Append(searched, CreateClient(2))
                /\ pc' = IF files_list' = <<>> THEN "done" ELSE "schema"
    /\ UNCHANGED <<mailbox, tzOffset, afterInclusive, schema, table_spec, otherTables, state, run, fileIdx,
                   records_synced, emitted, lastRun, searchVars, resolveVars, filterVars,
                   sampleVars, scanVars, fetchVars, clientVars>>

(* A list call or a message get raises while the messages are collected,   *)
(* and is attempted again before the exception leaves sync_table.          *)
SearchFailsRetried ==
    /\ pc = "start"
    /\ LET searched == GetEmailsForTableCalls(1, mailbox,
                            DateutilParse(state.modified_since), afterInclusive)
       IN  \E n \in MailboxCallsOf(searched) : callLog' = FailAtRetried(searched, n)
    /\ pc' = "failed"
    /\ UNCHANGED <<mailbox, tzOffset, afterInclusive, schema, table_spec, otherTables, state, run, gmail_emails_list,
                   files_list, fileIdx, records_synced, emitted, lastRun, searchVars, resolveVars, filterVars,
                   sampleVars, scanVars, fetchVars, clientVars>>

(* A list call or a message get raises while the messages are collected:   *)
(* nothing catches the exception, which leaves sync_table.                 *)
SearchFails ==
    /\ pc = "start"
    /\ LET searched == GetEmailsForTableCalls(1, mailbox,
                            DateutilParse(state.modified_since), afterInclusive)
       IN  \E n \in MailboxCallsOf(searched) : callLog' = FailAt(searched, n)
    /\ pc' = "failed"
    /\ UNCHANGED <<mailbox, tzOffset, afterInclusive, schema, table_spec, otherTables, state, run, gmail_emails_list,
                   files_list, fileIdx, records_synced, emitted, lastRun, searchVars, resolveVars, filterVars,
                   sampleVars, scanVars, fetchVars, clientVars>>

(* A call of get_sampled_schema_for_table raises: no schema is written.    *)
SamplingFails ==
    /\ pc = "schema"
    /\ ~schema
    /\ LET sampling == SampledSchemaCalls(ClientsCreated(callLog) + 1, mailbox, afterInclusive)
       IN  \E n \in MailboxCallsOf(sampling) : callLog' = callLog \o FailAt(sampling, n)
    /\ pc' = "failed"
    /\ UNCHANGED <<mailbox, tzOffset, afterInclusive, schema, table_spec, otherTables, state, run, gmail_emails_list,
                   files_list, fileIdx, records_synced, emitted, lastRun, searchVars, resolveVars, filterVars,
                   sampleVars, scanVars, fetchVars, clientVars>>

(* The schema is sampled if none was handed in; singer.write_schema, then  *)
(* the loop over files_list begins.                                        *)
WriteSchema ==
    /\ pc = "schema"
    /\ callLog' = IF schema THEN callLog
                  ELSE callLog \o SampledSchemaCalls(ClientsCreated(callLog) + 1,
                                                     mailbox, afterInclusive)
    /\ emitted' = Append(emitted, SchemaMessage(run))
    /\ fileIdx' = 1
    /\ pc' = "file"
    /\ UNCHANGED <<mailbox, tzOffset, afterInclusive, schema, table_spec, otherTables, state, run, gmail_emails_list,
                   files_list, records_synced, lastRun, searchVars, resolveVars, filterVars,
                   sampleVars, scanVars, fetchVars, clientVars>>

(* attachment.get_file(client) and get_row_iterator for the next file.     *)
GetFile ==
    /\ pc = "file"
    /\ fileIdx <= Len(files_list)
    /\ callLog' = Append(callLog, AttachmentCall(2, files_list[fileIdx].att))
    /\ records_synced' = 0
    /\ pc' = "rows"
    /\ UNCHANGED <<mailbox, tzOffset, afterInclusive, schema, table_spec, otherTables, state, run, gmail_emails_list,
                   files_list, fileIdx, emitted, lastRun, searchVars, resolveVars, filterVars,
                   sampleVars, scanVars, fetchVars, clientVars>>

(* The attachment fetch raises.                                            *)
GetFileFails ==
    /\ pc = "file"
    /\ fileIdx <= Len(files_list)
    /\ callLog' = Append(callLog,
            [AttachmentCall(2, files_list[fileIdx].att) EXCEPT !.ok = FALSE])
    /\ pc' = "failed"
    /\ UNCHANGED <<mailbox, tzOffset, afterInclusive, schema, table_spec, otherTables, state, run, gmail_emails_list,
                   files_list, fileIdx, records_synced, emitted, lastRun, searchVars, resolveVars, filterVars,
                   sampleVars, scanVars, fetchVars, clientVars>>

(* A row written with the line number counted from 1 at the first data    *)
(* row.                                                                    *)
WriteRecordCountedFromOne ==
    /\ pc = "rows"
    /\ records_synced < NumRows
    /\ emitted' = Append(emitted,
            RecordMessage(run, files_list[fileIdx].att, records_synced + 1))
    /\ records_synced' = records_synced + 1
    /\ UNCHANGED <<mailbox, tzOffset, afterInclusive, schema, table_spec, otherTables, callLog, state, pc, run, gmail_emails_list,
                   files_list, fileIdx, lastRun, searchVars, resolveVars, filterVars,
                   sampleVars, scanVars, fetchVars, clientVars>>

(* sync_table_file: one row of the file is written as a record.            *)
WriteRecord ==
    /\ pc = "rows"
    /\ records_synced < NumRows
    /\ emitted' = Append(emitted,
            RecordMessage(run, files_list[fileIdx].att, records_synced + 2))
    /\ records_synced' = records_synced + 1
    /\ UNCHANGED <<mailbox, tzOffset, afterInclusive, schema, table_spec, otherTables, callLog, state, pc, run, gmail_emails_list,
                   files_list, fileIdx, lastRun, searchVars, resolveVars, filterVars,
                   sampleVars, scanVars, fetchVars, clientVars>>

(* The row iterator raises before the file's last row.                     *)
DecodeFails ==
    /\ pc = "rows"
    /\ records_synced < NumRows
    /\ pc' = "failed"
    /\ UNCHANGED <<mailbox, tzOffset, afterInclusive, schema, table_spec, otherTables, callLog, state, run, gmail_emails_list,
                   files_list, fileIdx, records_synced, emitted, lastRun, searchVars, resolveVars, filterVars,
                   sampleVars, scanVars, fetchVars, clientVars>>

(* The state written when the table is finished, not after each file.     *)
WriteStateAtTableEnd ==
    /\ pc = "rows"
    /\ records_synced = NumRows
    /\ IF fileIdx = Len(files_list)
       THEN /\ state' = StateOf(files_list[fileIdx].internal_date, tzOffset)
            /\ emitted' = Append(emitted, StateMessage(run, state'))
       ELSE UNCHANGED <<state, emitted>>
    /\ fileIdx' = fileIdx + 1
    /\ pc' = "file"
    /\ UNCHANGED <<mailbox, tzOffset, afterInclusive, schema, table_spec, otherTables, callLog, run, gmail_emails_list, files_list,
                   records_synced, lastRun, searchVars, resolveVars, filterVars,
                   sampleVars, scanVars, fetchVars, clientVars>>

(* sync_table_file returned: the state entry is set and written.           *)
WriteState ==
    /\ pc = "rows"
    /\ records_synced = NumRows
    /\ LET table_name == table_spec.name
           written == SetItem(StateDict(table_name, state, otherTables), table_name,
                              StateOf(files_list[fileIdx].internal_date, tzOffset))
       IN  /\ state' = written[table_name]
           /\ otherTables' = [t \in DOMAIN otherTables |-> written[t]]
    /\ emitted' = Append(emitted, StateMessage(run, state'))
    /\ fileIdx' = fileIdx + 1
    /\ pc' = "file"
    /\ UNCHANGED <<mailbox, tzOffset, afterInclusive, schema, table_spec, callLog, run, gmail_emails_list, files_list,
                   records_synced, lastRun, searchVars, resolveVars, filterVars,
                   sampleVars, scanVars, fetchVars, clientVars>>

(* The loop over files_list is over: sync_table returns the state.         *)
Return ==
    /\ pc = "file"
    /\ fileIdx > Len(files_list)
    /\ pc' = "done"
    /\ UNCHANGED <<mailbox, tzOffset, afterInclusive, schema, table_spec, otherTables, callLog, state, run, gmail_emails_list,
                   files_list, fileIdx, records_synced, emitted, lastRun, searchVars, resolveVars, filterVars,
                   sampleVars, scanVars, fetchVars, clientVars>>

(* The tap is started again with the state the last run left.              *)
NextRun ==
    /\ pc \in {"done", "failed"}
    /\ run < MaxRuns
    /\ run' = run + 1
    /\ pc' = "start"
    /\ lastRun' = [outcome |-> pc, files_list |-> files_list, fileIdx |-> fileIdx]
    /\ gmail_emails_list' = <<>>
    /\ files_list' = <<>>
    /\ fileIdx' = 0
    /\ records_synced' = 0
    /\ callLog' = <<>>
    /\ UNCHANGED <<mailbox, tzOffset, afterInclusive, schema, table_spec, otherTables, state, emitted,
                   searchVars, resolveVars, filterVars,
                   sampleVars, scanVars, fetchVars, clientVars>>

Next ==
    \/ CollectFiles
    \/ SearchFails
    \/ SamplingFails
    \/ WriteSchema
    \/ GetFile
    \/ GetFileFails
    \/ WriteRecord
    \/ DecodeFails
    \/ WriteState
    \/ Return
    \/ NextRun

Spec == Init /\ [][Next]_vars

-----------------------------------------------------------------------------
(* SpecScan: one call of sample_files.                                     *)

InitScan ==
    /\ \E n \in 0..MaxScanMsgs : scanMessages \in ScanMessageLists(n)
    /\ scanSource \in {"attachment", "url"}
    /\ max_files \in 1..MaxFiles
    /\ scanResult = NoScanResult
    /\ SearchIdle /\ ResolveIdle /\ FilterIdle /\ SyncIdle
    /\ SampleIdle /\ FetchIdle
    /\ ClientIdle

SampleFilesCall ==
    /\ ~scanResult.done
    /\ scanResult' = SampleFiles(TablePattern, scanMessages, max_files)
    /\ UNCHANGED <<scanMessages, scanSource, max_files, searchVars, resolveVars,
                   filterVars, syncVars, sampleVars, fetchVars, clientVars>>

NextScan == SampleFilesCall

SpecScan == InitScan /\ [][NextScan]_vars

-----------------------------------------------------------------------------
(* SpecFetch: get_file called, time and again, on one resource.            *)

InitFetch ==
    /\ resource \in UrlResources \cup AttachmentResources
    /\ network = <<>>
    /\ fetched = <<>>
    /\ SearchIdle /\ ResolveIdle /\ FilterIdle /\ SyncIdle
    /\ SampleIdle /\ ScanIdle
    /\ ClientIdle

(* What one get_file call did: whether it raised, the File's name, the     *)
(* name before the extension step, the file type, and the stretch of the   *)
(* network log that holds its calls.                                       *)
Fetched(kind, raised, file_name, resolved, file_type, calls) ==
    [kind |-> kind, raised |-> raised, file_name |-> file_name, resolved |-> resolved,
     file_type |-> file_type, before |-> Len(network), after |-> Len(network) + Len(calls)]

UrlGetFile ==
    /\ resource.kind = "url"
    /\ Len(fetched) < MaxFetches
    /\ LET name == GetFileName(resource.url, resource.headers)
           calls == UrlGetFileCalls(resource, name)
       IN  /\ network' = network \o calls
           /\ fetched' = Append(fetched,
                  Fetched("url", name.raised, name.file_name, name.resolved,
                          name.file_type, calls))
    /\ UNCHANGED <<resource, searchVars, resolveVars, filterVars, syncVars,
                   sampleVars, scanVars, clientVars>>

AttachmentGetFile ==
    /\ resource.kind = "attachment"
    /\ Len(fetched) < MaxFetches
    /\ \E has_client \in BOOLEAN :
          LET calls == AttachmentGetFileCalls(resource, has_client)
          IN  /\ network' = network \o calls
              /\ fetched' = Append(fetched,
                     Fetched("attachment", ~has_client,
                             IF has_client THEN resource.attachment_name ELSE <<>>,
                             <<>>, "", calls))
    /\ UNCHANGED <<resource, searchVars, resolveVars, filterVars, syncVars,
                   sampleVars, scanVars, clientVars>>

NextFetch == UrlGetFile \/ AttachmentGetFile

SpecFetch == InitFetch /\ [][NextFetch]_vars

-----------------------------------------------------------------------------
(* SpecSample: one call of sample_file on a worksheet.                     *)

InitSample ==
    /\ sheet \in Sheets
    /\ sample_rate \in 1..MaxRate
    /\ max_records \in 1..MaxRecords
    /\ sampleResult = NoSampleResult
    /\ SearchIdle /\ ResolveIdle /\ FilterIdle /\ SyncIdle
    /\ ScanIdle /\ FetchIdle
    /\ ClientIdle

SampleFileCall ==
    /\ ~sampleResult.done
    /\ sampleResult' = SampleFile(sheet, sample_rate, max_records)
    /\ UNCHANGED <<sheet, sample_rate, max_records, searchVars, resolveVars,
                   filterVars, syncVars, scanVars, fetchVars, clientVars>>

NextSample == SampleFileCall

SpecSample == InitSample /\ [][NextSample]_vars

-----------------------------------------------------------------------------
(* SpecClient: gmail.create_client called time and again with one config.  *)
(* The k-th call names its temporary file k. The write of the temporary    *)
(* file is taken to succeed once the credential has been decoded.          *)

MaxCreates == 3      \* create_client calls

(* The credentials a config may carry: the base64 text of a pickled        *)
(* credential, of something that is no pickle, or no base64 text at all.   *)
Credentials == {"valid", "not_a_pickle", "not_base64"}

ClientExit(outcome, path, files) ==
    [outcome |-> outcome, path |-> path, left |-> path \in files]

InitClient ==
    /\ pickle_base64_encoded \in Credentials
    /\ storage = {}
    /\ pickle_file_path = 0
    /\ clientPc = "start"
    /\ exits = <<>>
    /\ SearchIdle /\ ResolveIdle /\ FilterIdle /\ SyncIdle
    /\ SampleIdle /\ ScanIdle /\ FetchIdle

(* _save_pickle_base64_encoded: the credential is decoded and written to a *)
(* new named temporary file that outlives its handle (delete=False).       *)
SavePickle ==
    /\ clientPc = "start"
    /\ Len(exits) < MaxCreates
    /\ pickle_base64_encoded # "not_base64"
    /\ pickle_file_path' = Len(exits) + 1
    /\ storage' = storage \cup {pickle_file_path'}
    /\ clientPc' = "try"
    /\ UNCHANGED <<pickle_base64_encoded, exits, searchVars, resolveVars, filterVars,
                   syncVars, sampleVars, scanVars, fetchVars>>

(* base64.decodebytes raises before any file is created.                   *)
DecodeRaises ==
    /\ clientPc = "start"
    /\ Len(exits) < MaxCreates
    /\ pickle_base64_encoded = "not_base64"
    /\ pickle_file_path' = 0
    /\ exits' = Append(exits, ClientExit("binascii.Error", 0, storage))
    /\ UNCHANGED <<pickle_base64_encoded, storage, clientPc, searchVars, resolveVars,
                   filterVars, syncVars, sampleVars, scanVars, fetchVars>>

(* Something else on the host removes the temporary file before the client *)
(* reads it.                                                               *)
TempFileVanishes ==
    /\ clientPc = "try"
    /\ pickle_file_path \in storage
    /\ storage' = storage \ {pickle_file_path}
    /\ UNCHANGED <<pickle_base64_encoded, pickle_file_path, clientPc, exits, searchVars,
                   resolveVars, filterVars, syncVars, sampleVars, scanVars, fetchVars>>

(* GmailClient(pickle_file_path): _get_credentials raises when the file is *)
(* missing or is no pickle; build may raise; otherwise the client is made. *)
ConstructClient ==
    /\ clientPc = "try"
    /\ \E build_ok \in BOOLEAN :
          clientPc' =
              IF pickle_file_path \notin storage THEN "GoogleAPICredentialsNotFound"
              ELSE IF pickle_base64_encoded = "not_a_pickle"
                   THEN "GoogleAPICredentialsAreAnInvalidFormat"
              ELSE IF build_ok THEN "client" ELSE "build error"
    /\ UNCHANGED <<pickle_base64_encoded, storage, pickle_file_path, exits, searchVars,
                   resolveVars, filterVars, syncVars, sampleVars, scanVars, fetchVars>>

(* A create_client that unlinks the file only after the client was made.   *)
UnlinkAfterSuccessOnly ==
    /\ clientPc \notin {"off", "start", "try"}
    /\ storage' = IF clientPc = "client" THEN storage \ {pickle_file_path} ELSE storage
    /\ pickle_file_path' = pickle_file_path
    /\ exits' = Append(exits, ClientExit(clientPc, pickle_file_path, storage'))
    /\ clientPc' = "start"
    /\ UNCHANGED <<pickle_base64_encoded, searchVars, resolveVars, filterVars, syncVars,
                   sampleVars, scanVars, fetchVars>>

(* finally: os.unlink(pickle_file_path), then the client is returned or    *)
(* the exception goes on; unlinking a file that is gone raises.            *)
Unlink ==
    /\ clientPc \notin {"off", "start", "try"}
    /\ storage' = storage \ {pickle_file_path}
    /\ pickle_file_path' = pickle_file_path
    /\ exits' = Append(exits,
            ClientExit(IF pickle_file_path \in storage THEN clientPc
                       ELSE "FileNotFoundError", pickle_file_path, storage'))
    /\ clientPc' = "start"
    /\ UNCHANGED <<pickle_base64_encoded, searchVars, resolveVars, filterVars, syncVars,
                   sampleVars, scanVars, fetchVars>>

NextClient ==
    \/ SavePickle
    \/ DecodeRaises
    \/ TempFileVanishes
    \/ ConstructClient
    \/ Unlink

SpecClient == InitClient /\ [][NextClient]_vars

-----------------------------------------------------------------------------
(* The claims.                                                             *)

(* All references of the upstream, in upstream order, and their number.    *)
UpstreamReferences == Flatten([i \in 1..Len(responses) |-> responses[i].messages])
TrueTotal == Len(UpstreamReferences)

(* C1: a search with maxResults = N yields exactly the first               *)
(* min(N, true_total) references in upstream order, for every N and every  *)
(* paging of the upstream; it never yields a reference beyond the N-th.    *)
C1_YieldsFirstMinNTotal ==
    (searchResult.done /\ max_search_results # None) =>
        searchResult.yielded =
            SubSeq(UpstreamReferences, 1, Min(max_search_results, TrueTotal))

(* The same for N >= 1 only.                                               *)
C1_YieldsFirstMinNTotalPositive ==
    (searchResult.done /\ max_search_results # None /\ max_search_results >= 1) =>
        searchResult.yielded =
            SubSeq(UpstreamReferences, 1, Min(max_search_results, TrueTotal))

(* The upstream order of the messages the search delivered: the ids of the *)
(* matching raw messages, ascending (ids number the mailbox in upstream    *)
(* order).                                                                 *)
SearchedIds ==
    MatchingIds(mailbox, 1, GetEpochTime(DateutilParse(state.modified_since)), afterInclusive)

NumericDate(message) == PyInt(message.internal_date)

(* C2: the ordered messages are a permutation of the resolved messages,    *)
(* ascending by the numeric value of the internal timestamp, equal         *)
(* timestamps keeping their upstream order.                                *)
C2_AscendingByNumericTimestamp ==
    pc = "schema" =>
        /\ Len(gmail_emails_list) = Len(SearchedIds)
        /\ {gmail_emails_list[k].message_id : k \in 1..Len(gmail_emails_list)}
              = {SearchedIds[k] : k \in 1..Len(SearchedIds)}
        /\ \A i, j \in 1..Len(gmail_emails_list) :
              i < j =>
                 /\ NumericDate(gmail_emails_list[i]) <= NumericDate(gmail_emails_list[j])
                 /\ NumericDate(gmail_emails_list[i]) = NumericDate(gmail_emails_list[j])
                      => gmail_emails_list[i].message_id < gmail_emails_list[j].message_id

(* C3: the watermark written for a file of a message with internal         *)
(* timestamp t denotes the whole second floor(t / 1000) of the host's      *)
(* calendar and has no sub-second component.                               *)
C3_WatermarkIsWholeSecond ==
    (pc = "file" /\ fileIdx > 1) =>
        LET t == PyInt(files_list[fileIdx - 1].internal_date)
        IN  /\ state.has
            /\ state.modified_since.frac = None
            /\ state.modified_since.sec - tzOffset = t \div MillisPerSecond

(* The part of the output stream the current run wrote.                    *)
InRun(e) == e.run = run
RunLog == SelectSeq(emitted, InRun)
IsState(e) == e.type = "STATE"
IsRecord(e) == e.type = "RECORD"
StatesBefore(log, k) == Len(SelectSeq(SubSeq(log, 1, k - 1), IsState))

(* The place in files_list of the file a record was read from.             *)
FileIndex(e) ==
    CHOOSE m \in 1..Len(files_list) :
        /\ files_list[m].att.message_id = e.message_id
        /\ files_list[m].att.attachment_id = e.attachment_id

(* C4: the watermark is written once per file: the i-th state write of a   *)
(* run carries the timestamp of the i-th file and comes after all rows of  *)
(* that file and before any row of the next file; a file whose fetch or    *)
(* decode fails before its last row gets no state write.                   *)
C4_WatermarkAfterEveryFile ==
    LET log == RunLog
    IN  /\ \A k \in 1..Len(log) :
              /\ IsState(log[k]) =>
                    LET i == StatesBefore(log, k) + 1
                    IN  /\ i <= Len(files_list)
                        /\ log[k].value = StateOf(files_list[i].internal_date, tzOffset)
                        /\ \A n \in 1..NumRows :
                              \E j \in 1..(k - 1) :
                                  log[j] = RecordMessage(run, files_list[i].att, n + 1)
              /\ IsRecord(log[k]) => StatesBefore(log, k) = FileIndex(log[k]) - 1
        /\ (pc = "failed" /\ fileIdx \in 1..Len(files_list)) =>
              Len(SelectSeq(log, IsState)) = fileIdx - 1

(* A run stopped inside its second file, after the state write of the      *)
(* first and before the last row of the second.                            *)
C4_Witness ==
    /\ pc = "failed"
    /\ fileIdx = 2
    /\ records_synced = 1
    /\ Len(SelectSeq(RunLog, IsState)) = 1
    /\ Len(SelectSeq(RunLog, IsRecord)) = NumRows + 1

(* The previous run stopped in file i+1 of a message M whose file i it had *)
(* completed and stamped.                                                  *)
StoppedInsideMessage ==
    /\ lastRun.outcome = "failed"
    /\ lastRun.fileIdx \in 2..Len(lastRun.files_list)
    /\ lastRun.files_list[lastRun.fileIdx - 1].att.message_id
          = lastRun.files_list[lastRun.fileIdx].att.message_id

InterruptedMessage == lastRun.files_list[lastRun.fileIdx].att.message_id

(* C5: after a run that stopped inside message M, the next run, started    *)
(* from the stored watermark, selects M again and emits every matching     *)
(* file of M from the first one (the mailbox's after: boundary being read  *)
(* as inclusive).                                                          *)
C5_NextRunReprocessesInterruptedMessage ==
    (pc = "done" /\ StoppedInsideMessage /\ afterInclusive) =>
        \A m \in 1..Len(lastRun.files_list) :
            lastRun.files_list[m].att.message_id = InterruptedMessage =>
                \A n \in 1..NumRows :
                    \E k \in 1..Len(RunLog) :
                        RunLog[k] = RecordMessage(run, lastRun.files_list[m].att, n + 1)

(* Substring-search semantics, stated on the string alone: some substring  *)
(* equals the literal and, for an anchored pattern, ends the string.       *)
ContainsMatch(pattern, str) ==
    \E i, j \in 0..Len(str) :
        /\ SubSeq(str, i + 1, j) = pattern.lit
        /\ pattern.anchored => j = Len(str)

(* The matching attachments of the messages the run's search delivered.    *)
MatchingFiles ==
    {f \in (1..Len(mailbox)) \X (1..MaxParts) :
        /\ \E k \in 1..Len(gmail_emails_list) : gmail_emails_list[k].message_id = f[1]
        /\ \E q \in 1..Len(mailbox[f[1]].parts) :
              /\ mailbox[f[1]].parts[q].attachmentId = f[2]
              /\ ContainsMatch(TablePattern, mailbox[f[1]].parts[q].filename)}

NewestMatchingDate ==
    CHOOSE d \in {PyInt(mailbox[f[1]].internalDate) : f \in MatchingFiles} :
        \A f \in MatchingFiles : PyInt(mailbox[f[1]].internalDate) <= d

(* C6: a run that completes without error emits every data row of every    *)
(* matching attachment exactly once and leaves the watermark at the        *)
(* timestamp of the newest message that had a matching file.               *)
C6_CompleteRunEmitsAllRowsOnce ==
    (pc = "done" /\ files_list # <<>>) =>
        /\ \A f \in MatchingFiles :
              \A n \in 1..NumRows :
                  Cardinality({k \in 1..Len(RunLog) :
                      /\ IsRecord(RunLog[k])
                      /\ RunLog[k].message_id = f[1]
                      /\ RunLog[k].attachment_id = f[2]
                      /\ RunLog[k].lineno = n + 1}) = 1
        /\ Len(SelectSeq(RunLog, IsRecord)) = Cardinality(MatchingFiles) * NumRows
        /\ state = StateOf(IntToStr(NewestMatchingDate), tzOffset)

(* The place of an attachment among the body parts of its message.         *)
PartPosition(message_id, attachment_id) ==
    CHOOSE q \in 1..Len(mailbox[message_id].parts) :
        mailbox[message_id].parts[q].attachmentId = attachment_id

(* C7: files are fetched and emitted by ascending timestamp of their       *)
(* message, the files of one message in document order, and files of       *)
(* different messages are never interleaved.                               *)
C7_FilesInTimestampThenDocumentOrder ==
    LET recs == SelectSeq(RunLog, IsRecord)
    IN  \A j, k \in 1..Len(recs) :
            j < k =>
                /\ PyInt(mailbox[recs[j].message_id].internalDate)
                      <= PyInt(mailbox[recs[k].message_id].internalDate)
                /\ recs[j].message_id = recs[k].message_id =>
                      /\ PartPosition(recs[j].message_id, recs[j].attachment_id)
                            <= PartPosition(recs[k].message_id, recs[k].attachment_id)
                      /\ \A l \in j..k : recs[l].message_id = recs[j].message_id

AttachmentMatches(a) == ContainsMatch(fPattern, a.attachment_name)
UrlMatches(u) == ContainsMatch(fPattern, u.url)

(* C8: filter(pattern) replaces each present list by the sub-sequence of   *)
(* its elements whose name (attachments) or URL string (URLs) contains a   *)
(* match of the pattern, in the original order, each list on its own.      *)
C8_FilterKeepsMatchingSubsequence ==
    fBefore.called =>
        /\ fBefore.message.attachment_list.present =>
              fMessage.attachment_list.items =
                  SelectSeq(fBefore.message.attachment_list.items, AttachmentMatches)
        /\ fBefore.message.url_list.present =>
              fMessage.url_list.items = SelectSeq(fBefore.message.url_list.items, UrlMatches)
        /\ fMessage.message_id = fBefore.message.message_id
        /\ fMessage.internal_date = fBefore.message.internal_date

(* A call that kept the second of two attachments, matched inside its name *)
(* and not at its start, and one of two URLs.                              *)
C8_Witness ==
    /\ fBefore.called
    /\ Len(fBefore.message.attachment_list.items) = 2
    /\ fMessage.attachment_list.items = <<fBefore.message.attachment_list.items[2]>>
    /\ fMessage.attachment_list.items[1].attachment_name[1] # fPattern.lit[1]
    /\ Len(fBefore.message.url_list.items) = 2
    /\ Len(fMessage.url_list.items) = 1

(* C9: filter never turns an absent list into a present one or a present   *)
(* list into an absent one; a present list none of whose elements match    *)
(* becomes the empty list.                                                 *)
C9_AbsentStaysAbsentPresentStaysPresent ==
    fBefore.called =>
        /\ fMessage.attachment_list.present = fBefore.message.attachment_list.present
        /\ fMessage.url_list.present = fBefore.message.url_list.present
        /\ ~fMessage.attachment_list.present => fMessage.attachment_list = Absent
        /\ ~fMessage.url_list.present => fMessage.url_list = Absent
        /\ (/\ fBefore.message.attachment_list.present
            /\ \A k \in 1..Len(fBefore.message.attachment_list.items) :
                  ~AttachmentMatches(fBefore.message.attachment_list.items[k]))
              => fMessage.attachment_list = Present(<<>>)
        /\ (/\ fBefore.message.url_list.present
            /\ \A k \in 1..Len(fBefore.message.url_list.items) :
                  ~UrlMatches(fBefore.message.url_list.items[k]))
              => fMessage.url_list = Present(<<>>)

(* A call on a message without a URL list whose attachments all fail the   *)
(* pattern.                                                                *)
C9_Witness ==
    /\ fBefore.called
    /\ ~fBefore.message.url_list.present
    /\ fMessage.url_list = Absent
    /\ fBefore.message.attachment_list.present
    /\ fBefore.message.attachment_list.items # <<>>
    /\ fMessage.attachment_list = Present(<<>>)

(* The http(s) hyperlink targets of the top-level HTML body parts.         *)
RECURSIVE HtmlHrefs(_)
HtmlHrefs(parts) ==
    IF parts = <<>> THEN <<>>
    ELSE (IF Head(parts).mimeType = "text/html" THEN Head(parts).hrefs ELSE <<>>)
         \o HtmlHrefs(Tail(parts))

(* C10: the resolved Message has one Url, owned by the message, for each   *)
(* hyperlink target of the top-level HTML body; without body parts the URL *)
(* list is empty.                                                          *)
C10_UrlListHoldsEveryHyperlink ==
    messageObj.resolved =>
        LET hrefs == HtmlHrefs(rawMessage.parts)
            urls == messageObj.message.url_list
        IN  /\ urls.present
            /\ Len(urls.items) = Len(hrefs)
            /\ \A k \in 1..Len(hrefs) :
                  \E q \in 1..Len(urls.items) : urls.items[q] = Url(rawMessage.id, hrefs[k])

(* C11: the attachment list of a resolved Message is, in document order,   *)
(* the top-level body parts that have both a non-empty filename and an     *)
(* attachment id, each owned by the message; nested parts and parts        *)
(* lacking either field are never included.                                *)
IsAttachmentPart(part) == part.filename # <<>> /\ part.attachmentId # 0

C11_AttachmentListIsTopLevelAttachmentParts ==
    messageObj.resolved =>
        LET kept == SelectSeq(rawMessage.parts, IsAttachmentPart)
            atts == messageObj.message.attachment_list
        IN  /\ atts.present
            /\ Len(atts.items) = Len(kept)
            /\ \A k \in 1..Len(kept) :
                  atts.items[k] =
                      Attachment(rawMessage.id, kept[k].attachmentId, kept[k].filename)

(* A message with one top-level attachment part and a multipart part that  *)
(* nests another attachment has been resolved.                             *)
C11_Witness ==
    /\ messageObj.resolved
    /\ Len(messageObj.message.attachment_list.items) = 1
    /\ \E k \in 1..Len(rawMessage.parts) :
          \E j \in 1..Len(rawMessage.parts[k].nested) :
              IsAttachmentPart(rawMessage.parts[k].nested[j])

(* The field name of a header text, read off character by character:       *)
(* characters that are neither word characters nor whitespace vanish, a    *)
(* whitespace character gives "_" unless the one kept before it was        *)
(* whitespace too, every other character is lowercased.                    *)
RECURSIVE NormalizedFrom(_, _)
NormalizedFrom(text, afterSpace) ==
    IF text = <<>> THEN <<>>
    ELSE LET c == Head(text)
         IN  IF IsSpaceChar(c)
             THEN (IF afterSpace THEN <<>> ELSE <<"_">>) \o NormalizedFrom(Tail(text), TRUE)
             ELSE IF IsWordChar(c)
                  THEN <<LowerChar(c)>> \o NormalizedFrom(Tail(text), FALSE)
                  ELSE NormalizedFrom(Tail(text), afterSpace)

Normalized(text) == NormalizedFrom(text, FALSE)

(* The row of the worksheet's data row r as a field-to-value map: each     *)
(* normalized header names the value of the last column that carries it.   *)
SourceRow(ws, r) ==
    [key \in {Normalized(ws.header[c]) : c \in 1..Len(ws.header)} |->
        LET c == CHOOSE c \in 1..Len(ws.header) :
                    /\ Normalized(ws.header[c]) = key
                    /\ \A e \in 1..Len(ws.header) :
                          Normalized(ws.header[e]) = key => e <= c
        IN  ws.rows[r][c]]

(* The zero-based indexes sample_file is to keep: the multiples of rate    *)
(* below n, truncated to the first max of them.                            *)
KeptIndexes(n, rate, max) ==
    LET count == Min(max, (n + rate - 1) \div rate)
    IN  [k \in 1..count |-> (k - 1) * rate]

(* C12: for sampleRate >= 1 and maxRecords >= 1 sample_file returns        *)
(* exactly the rows whose zero-based index is a multiple of sampleRate, in *)
(* source order, truncated to the first maxRecords, each holding the       *)
(* values its row had in the source; no row after the last kept one is     *)
(* consumed once maxRecords rows are kept.                                 *)
C12_SampleFileReturnsEveryRateThRow ==
    sampleResult.done =>
        LET idx == KeptIndexes(Len(sheet.rows), sample_rate, max_records)
        IN  /\ Len(sampleResult.samples) = Len(idx)
            /\ \A k \in 1..Len(idx) :
                  sampleResult.samples[k] = SourceRow(sheet, idx[k] + 1)
            /\ Len(idx) = max_records => sampleResult.consumed = idx[Len(idx)] + 1

(* The positions alone: which rows were kept and how many were consumed.   *)
C12_SampleFileKeepsEveryRateThIndex ==
    sampleResult.done =>
        LET idx == KeptIndexes(Len(sheet.rows), sample_rate, max_records)
        IN  /\ sampleResult.kept = idx
            /\ Len(idx) = max_records => sampleResult.consumed = idx[Len(idx)] + 1

(* C18: every key of every row the spreadsheet decoder emits is the        *)
(* normalization of the header cell of its column (non-word non-space      *)
(* characters removed, then whitespace runs replaced by one underscore,    *)
(* then lowercased), and names that column's value.                        *)
C18_KeysAreNormalizedHeaders ==
    sampleResult.done =>
        \A r \in 1..Len(sampleResult.yielded) :
            sampleResult.yielded[r] = SourceRow(sheet, r)

(* A row was emitted from a sheet whose header holds a character to        *)
(* remove between two whitespace characters, as in "A # b".                *)
C18_Witness ==
    /\ sampleResult.done
    /\ Len(sampleResult.yielded) >= 1
    /\ \E c \in 1..Len(sheet.header) : sheet.header[c] = <<" ", "#", " ">>

(* The resources of a list that match the table pattern, in list order; an *)
(* absent list has none.                                                   *)
MatchingAttachments(list) ==
    IF list.present
    THEN SelectSeq(list.items, LAMBDA att : ReSearch(TablePattern, att.attachment_name))
    ELSE <<>>

MatchingUrls(list) ==
    IF list.present
    THEN SelectSeq(list.items, LAMBDA u : ReSearch(TablePattern, u.url))
    ELSE <<>>

(* The matching attachments of the messages from the m-th on, message by   *)
(* message.                                                                *)
RECURSIVE AttachmentsFrom(_, _)
AttachmentsFrom(msgs, m) ==
    IF m > Len(msgs) THEN <<>>
    ELSE MatchingAttachments(msgs[m].attachment_list) \o AttachmentsFrom(msgs, m + 1)

(* The matching resources of the lists the source kind selects.            *)
RECURSIVE SelectedFrom(_, _, _)
SelectedFrom(msgs, source, m) ==
    IF m > Len(msgs) THEN <<>>
    ELSE (IF source = "url"
          THEN MatchingUrls(msgs[m].url_list)
          ELSE MatchingAttachments(msgs[m].attachment_list))
         \o SelectedFrom(msgs, source, m + 1)

C14_SamplesTheListOfTheSourceKind ==
    scanResult.done =>
        LET all == SelectedFrom(scanMessages, scanSource, 1)
        IN  /\ ~scanResult.raised
            /\ scanResult.fetches = SubSeq(all, 1, Min(max_files, Len(all)))
            /\ \A k \in 1..Len(scanResult.to_return) :
                  \E q \in 1..Len(scanResult.fetches) :
                      scanResult.to_return[k].resource = scanResult.fetches[q]

(* The same for tables whose source kind is attachment and messages whose  *)
(* attachment list is present.                                             *)
C14_SamplesAttachmentsOfAttachmentTables ==
    (/\ scanResult.done
     /\ scanSource = "attachment"
     /\ \A m \in 1..Len(scanMessages) : scanMessages[m].attachment_list.present) =>
        LET all == SelectedFrom(scanMessages, scanSource, 1)
        IN  /\ ~scanResult.raised
            /\ scanResult.fetches = SubSeq(all, 1, Min(max_files, Len(all)))

(* Whether s ends with suffix.                                             *)
EndsWith(s, suffix) ==
    /\ Len(s) >= Len(suffix)
    /\ \A k \in 1..Len(suffix) : s[Len(s) - Len(suffix) + k] = suffix[k]

(* s without the blanks at its ends.                                       *)
Trimmed(s) ==
    IF \A k \in 1..Len(s) : s[k] = " " THEN <<>>
    ELSE LET first == CHOOSE a \in 1..Len(s) :
                          s[a] # " " /\ \A b \in 1..(a - 1) : s[b] = " "
             last == CHOOSE a \in 1..Len(s) :
                          s[a] # " " /\ \A b \in (a + 1)..Len(s) : s[b] = " "
         IN  SubSeq(s, first, last)

(* The pieces of s between the separators: piece k lies between the        *)
(* (k-1)-th and the k-th occurrence of sep.                                *)
SeparatorPositions(s, sep) == {p \in 1..Len(s) : s[p] = sep}

(* The values of the filename= tokens of a content-disposition value, each *)
(* running from its token to the next ";" or the end, trimmed, in order of *)
(* the tokens' chunks; only the first token of a chunk counts.             *)
FilenameTokenValues(value) ==
    LET starts == {p \in 1..Len(value) :
                      /\ p + Len(FilenameToken) - 1 <= Len(value)
                      /\ SubSeq(value, p, p + Len(FilenameToken) - 1) = FilenameToken}
        chunkStart(p) ==
            IF \E q \in SeparatorPositions(value, ";") : q < p
            THEN 1 + CHOOSE q \in SeparatorPositions(value, ";") :
                        q < p /\ \A o \in SeparatorPositions(value, ";") : o < p => o <= q
            ELSE 1
        chunkEnd(p) ==
            IF \E q \in SeparatorPositions(value, ";") : q > p
            THEN (CHOOSE q \in SeparatorPositions(value, ";") :
                        q > p /\ \A o \in SeparatorPositions(value, ";") : o > p => o >= q) - 1
            ELSE Len(value)
        firstOfChunk(p) == \A o \in starts : chunkStart(o) = chunkStart(p) => o >= p
    IN  {[at |-> p, name |-> Trimmed(SubSeq(value, p + Len(FilenameToken), chunkEnd(p)))] :
            p \in {o \in starts : firstOfChunk(o) /\ o + Len(FilenameToken) <= chunkEnd(o)}}

(* The name the content-disposition header yields: the value of its first  *)
(* filename= token, <<>> when there is none.                               *)
HeaderFilename(headers) ==
    IF ~headers.content_disposition.present THEN <<>>
    ELSE LET tokens == FilenameTokenValues(headers.content_disposition.value)
         IN  IF tokens = {} THEN <<>>
             ELSE (CHOOSE tok \in tokens : \A o \in tokens : tok.at <= o.at).name

(* The URL's final path segment: the query, from the first "?" on, is      *)
(* removed, and what follows the last "/" of the rest is the segment;      *)
(* <<>> when the rest has no "/".                                          *)
FinalPathSegment(url) ==
    LET queries == SeparatorPositions(url, "?")
        path == IF queries = {} THEN url
                ELSE SubSeq(url, 1, (CHOOSE q \in queries : \A o \in queries : q <= o) - 1)
        slashes == SeparatorPositions(path, "/")
    IN  IF slashes = {} THEN <<>>
        ELSE Trimmed(SubSeq(path, 1 + (CHOOSE q \in slashes : \A o \in slashes : o <= q),
                            Len(path)))

(* The filename Url._get_file_name is to resolve before the extension      *)
(* step: the header's, else the URL's, else none.                          *)
FallbackName(u) ==
    IF HeaderFilename(u.headers) # <<>> THEN HeaderFilename(u.headers)
    ELSE FinalPathSegment(u.url)

(* C15: Url._get_file_name resolves the filename by strict fallback: the   *)
(* trimmed value of the content-disposition filename= token when there is  *)
(* one, else the URL's final path segment with the ?query removed; when    *)
(* neither yields a non-empty name it raises and appends no extension.     *)
C15_FilenameByStrictFallback ==
    \A i \in 1..Len(fetched) :
        fetched[i].kind = "url" =>
            IF FallbackName(resource) = <<>>
            THEN fetched[i].raised /\ fetched[i].file_name = <<>>
            ELSE ~fetched[i].raised /\ fetched[i].resolved = FallbackName(resource)

(* The same for URLs that have no "/" after their first "?".               *)
C15_FilenameByStrictFallbackPlainQuery ==
    \A i \in 1..Len(fetched) :
        (/\ fetched[i].kind = "url"
         /\ \A q \in SeparatorPositions(resource.url, "?") :
               \A s \in SeparatorPositions(resource.url, "/") : s < q) =>
            IF FallbackName(resource) = <<>>
            THEN fetched[i].raised /\ fetched[i].file_name = <<>>
            ELSE ~fetched[i].raised /\ fetched[i].resolved = FallbackName(resource)

(* The extension of the fixed MIME table a content-type value maps to, ""  *)
(* when it maps to none.                                                   *)
MimeExtension(headers) ==
    IF ~headers.content_type.present \/ headers.content_type.value = <<>> THEN ""
    ELSE LET media == LowerSegment(headers.content_type.value[1])
         IN  IF media \in {"text/csv", "text/plain"} THEN "csv"
             ELSE IF media \in {"application/excel", "application/vnd.ms-excel",
                                "application/x-excel", "application/x-msexcel"} THEN "xls"
             ELSE IF media = "application/vnd.openxmlformats-officedocument.spreadsheetml.sheet"
                  THEN "xlsx"
             ELSE IF media \in {"application/zip", "application/x-compressed",
                                "application/x-zip-compressed", "multipart/x-zip"} THEN "zip"
             ELSE ""

(* C16: when the content-type maps to an extension e, the name returned by *)
(* Url._get_file_name ends with ".e", ".e" being appended exactly when the *)
(* resolved name does not end with it already, and the extension step      *)
(* applied again changes nothing; when it maps to no extension the         *)
(* resolved name is returned unchanged.                                    *)
C16_ExtensionAppendedOnce ==
    \A i \in 1..Len(fetched) :
        (fetched[i].kind = "url" /\ ~fetched[i].raised) =>
            LET e == MimeExtension(resource.headers)
                dotE == <<".">> \o ExtensionChars(e)
            IN  IF e = ""
                THEN fetched[i].file_name = fetched[i].resolved
                ELSE /\ EndsWith(fetched[i].file_name, dotE)
                     /\ fetched[i].file_name =
                            IF EndsWith(fetched[i].resolved, dotE)
                            THEN fetched[i].resolved
                            ELSE fetched[i].resolved \o dotE
                     /\ AddFileExtension(fetched[i].file_name, e) = fetched[i].file_name

(* A name that already ended with its extension was returned as it was.    *)
C16_Witness ==
    \E i \in 1..Len(fetched) :
        /\ fetched[i].kind = "url" /\ ~fetched[i].raised
        /\ MimeExtension(resource.headers) = "csv"
        /\ fetched[i].file_name = fetched[i].resolved
        /\ EndsWith(fetched[i].resolved, <<".", "c", "s", "v">>)

(* C17: every successful get_file performs exactly its network calls and   *)
(* reuses nothing: an Attachment one attachment fetch with (message id,    *)
(* attachment id), a Url one header-only request and then one full GET;    *)
(* the calls of successive get_file calls follow one another in the log.   *)
C17_ExactNetworkCallsPerFetch ==
    /\ \A i \in 1..Len(fetched) :
          /\ fetched[i].before = (IF i = 1 THEN 0 ELSE fetched[i - 1].after)
          /\ fetched[i].after <= Len(network)
          /\ ~fetched[i].raised =>
                SubSeq(network, fetched[i].before + 1, fetched[i].after) =
                    IF fetched[i].kind = "url"
                    THEN <<[op |-> "HEAD", target |-> resource.url],
                           [op |-> "GET", target |-> resource.url]>>
                    ELSE <<[op |-> "attachments.get",
                            target |-> <<resource.message_id, resource.attachment_id>>]>>
    /\ fetched # <<>> => fetched[Len(fetched)].after = Len(network)

(* The same Url was fetched twice, both times with success.                *)
C17_Witness ==
    /\ Len(fetched) = 2
    /\ resource.kind = "url"
    /\ ~fetched[1].raised /\ ~fetched[2].raised
    /\ Len(network) = 4

(* C19: in one run the client is constructed exactly once, and every       *)
(* mailbox call of the run (list, message get, attachment fetch) goes      *)
(* through that one handle.                                                *)
C19_OneClientPerRun ==
    /\ ClientsCreated(callLog) <= 1
    /\ MailboxCallsOf(callLog) # {} => ClientsCreated(callLog) = 1
    /\ \A n \in MailboxCallsOf(callLog) : callLog[n].client = 1

(* The part of C19 the code keeps: every mailbox call goes through a       *)
(* client that was constructed earlier in the same run, and the calls of   *)
(* one search all go through the same client.                              *)
C19_EveryCallThroughAClientOfTheRun ==
    \A n \in MailboxCallsOf(callLog) :
        /\ \E k \in 1..(n - 1) : callLog[k] = CreateClient(callLog[n].client)
        /\ callLog[n].op \in {"list", "get"} => callLog[n].client \in {1, 3}

(* The state entry as the run found it: the last state written by an       *)
(* earlier run, or the empty state.                                        *)
StatesWrittenBefore(r) ==
    {k \in 1..Len(emitted) : emitted[k].type = "STATE" /\ emitted[k].run < r}

StateAtStartOf(r) ==
    IF StatesWrittenBefore(r) = {} THEN EmptyState
    ELSE emitted[CHOOSE k \in StatesWrittenBefore(r) :
                    \A j \in StatesWrittenBefore(r) : j <= k].value

SameCall(c, d) == c.op = d.op /\ c.client = d.client /\ c.arg = d.arg

(* C20: a list call or message get that raises while sync_table collects   *)
(* the table's messages is attempted exactly once and ends the run: no     *)
(* call follows it, the run has emitted no schema, record or state, and    *)
(* the state entry is what it was when the run began.                      *)
C20_SearchFailureIsFatalAndNotRetried ==
    \A n \in 1..Len(callLog) :
        (callLog[n].op \in {"list", "get"} /\ callLog[n].client = 1 /\ ~callLog[n].ok) =>
            /\ pc = "failed"
            /\ n = Len(callLog)
            /\ \A k \in 1..Len(callLog) : SameCall(callLog[k], callLog[n]) => k = n
            /\ \A k \in 1..Len(emitted) : emitted[k].run # run
            /\ state = StateAtStartOf(run)

(* The second run fails at the list call for the second page, after the    *)
(* first page was listed and its message fetched; the first run had        *)
(* written a watermark.                                                    *)
C20_Witness ==
    /\ run = 2
    /\ pc = "failed"
    /\ state.has
    /\ Len(callLog) >= 4
    /\ callLog[Len(callLog)].op = "list"
    /\ callLog[Len(callLog)].arg = <<2>>
    /\ callLog[Len(callLog)].client = 1
    /\ ~callLog[Len(callLog)].ok
    /\ \A k \in 1..(Len(callLog) - 1) : callLog[k].ok

(* The records of run r for the file att among the first i messages of the *)
(* output stream.                                                          *)
RecordsOfFile(r, message_id, attachment_id, i) ==
    {j \in 1..i : /\ emitted[j].type = "RECORD"
                  /\ emitted[j].run = r
                  /\ emitted[j].message_id = message_id
                  /\ emitted[j].attachment_id = attachment_id}

(* C21: the k-th row emitted for a file carries line number k + 1, so the  *)
(* numbers start at 2, step by 1 and restart with every file; and the      *)
(* count sync_table_file returns is the number of rows emitted for it.     *)
C21_LineNumbersStartAtTwoPerFile ==
    /\ \A i \in 1..Len(emitted) :
          emitted[i].type = "RECORD" =>
              emitted[i].lineno =
                  Cardinality(RecordsOfFile(emitted[i].run, emitted[i].message_id,
                                            emitted[i].attachment_id, i)) + 1
    /\ pc = "rows" =>
          records_synced =
              Cardinality(RecordsOfFile(run, files_list[fileIdx].att.message_id,
                                        files_list[fileIdx].att.attachment_id,
                                        Len(emitted)))

(* The second file of a run has been written to its last row.              *)
C21_Witness ==
    /\ pc = "rows"
    /\ fileIdx = 2
    /\ records_synced = NumRows
    /\ emitted[Len(emitted)].type = "RECORD"
    /\ emitted[Len(emitted)].lineno = NumRows + 1

(* The pages the list calls of the search were answered with.              *)
ServedPages ==
    [k \in 1..Len(searchResult.list_calls) |->
        RawGmailListMessages(responses, searchResult.list_calls[k])]

ChainFollowed ==
    searchResult.done =>
        LET calls == searchResult.list_calls
            served == Flatten([k \in 1..Len(calls) |-> ServedPages[k].messages])
        IN  /\ Len(calls) >= 1
            /\ calls[1] = NoToken
            /\ \A k \in 2..Len(calls) :
                  /\ ServedPages[k - 1].nextPageToken # NoToken
                  /\ calls[k] = ServedPages[k - 1].nextPageToken
            /\ Len(searchResult.yielded) <= Len(served)
            /\ searchResult.yielded = SubSeq(served, 1, Len(searchResult.yielded))
            /\ max_search_results = None =>
                  /\ ServedPages[Len(calls)].nextPageToken = NoToken
                  /\ Len(calls) = Len(responses)
                  /\ searchResult.yielded = UpstreamReferences

(* C22: the first list call carries no page token, every later one the     *)
(* nextPageToken of the response before it; references are yielded page   *)
(* by page in upstream order; a page without messages but with a token is  *)
(* passed over and the chain goes on; the uncapped search ends with the    *)
(* first response that has no token, and over an upstream whose chain ends *)
(* the search terminates.                                                  *)
C22_FollowsTheContinuationChain == []ChainFollowed /\ <>searchResult.done

(* An uncapped search went past a page without messages to a later page    *)
(* that had some.                                                          *)
C22_Witness ==
    /\ searchResult.done
    /\ max_search_results = None
    /\ Len(responses) = 3
    /\ responses[1].messages # <<>>
    /\ responses[2].messages = <<>>
    /\ responses[3].messages # <<>>
    /\ Len(searchResult.list_calls) = 3

(* The resources the run lists for retrieval, in order.                    *)
ListedResources == [k \in 1..Len(files_list) |-> files_list[k].att]

(* C23: for a table whose source is url sync_table lists for retrieval the *)
(* URLs of each message that match the table pattern, for a table whose    *)
(* source is attachment the matching attachments and nothing else.         *)
C23_RetrievesTheResourcesOfTheSource ==
    ListedResources = SelectedFrom(gmail_emails_list, table_spec.source, 1)

(* The same for tables whose source is attachment.                         *)
C23_AttachmentTablesRetrieveAttachments ==
    table_spec.source = "attachment" =>
        ListedResources = SelectedFrom(gmail_emails_list, "attachment", 1)

(* C24: on every exit of create_client, be it the return of the client or  *)
(* an exception of the client construction, the temporary file that held   *)
(* the decoded credential is gone; between calls no such file is on disk.  *)
C24_TemporaryCredentialDeletedOnEveryExit ==
    /\ \A k \in 1..Len(exits) : ~exits[k].left
    /\ clientPc = "start" => storage = {}

(* A call has ended with the credential rejected as no pickle, after its   *)
(* temporary file had been written.                                        *)
C24_Witness ==
    /\ clientPc = "start"
    /\ \E k \in 1..Len(exits) :
          /\ exits[k].outcome = "GoogleAPICredentialsAreAnInvalidFormat"
          /\ exits[k].path = k

(* C25: a Url.get_file that raises FileNameCannotBeEvaluatedException has  *)
(* issued the header-only request exactly once and no GET; an              *)
(* Attachment.get_file that raises TypeError for want of a client has      *)
(* issued no network call.                                                 *)
C25_FailedFetchStopsBeforeTheDownload ==
    \A i \in 1..Len(fetched) :
        fetched[i].raised =>
            SubSeq(network, fetched[i].before + 1, fetched[i].after) =
                IF fetched[i].kind = "url"
                THEN <<[op |-> "HEAD", target |-> resource.url]>>
                ELSE <<>>

(* A Url whose name could not be resolved was fetched twice; the log holds *)
(* the two header requests and nothing else.                               *)
C25_Witness ==
    /\ resource.kind = "url"
    /\ Len(fetched) = 2
    /\ fetched[1].raised /\ fetched[2].raised
    /\ Len(network) = 2

(* C26: a row the spreadsheet decoder has yielded keeps its contents while *)
(* later rows are consumed: every row of the list sample_file returns      *)
(* holds what it held when it was yielded, the values of the worksheet row *)
(* sampled at that position.                                               *)
C26_YieldedRowsAreIndependent ==
    sampleResult.done =>
        \A k \in 1..Len(sampleResult.samples) :
            /\ sampleResult.samples[k] = sampleResult.yielded[sampleResult.kept[k] + 1]
            /\ sampleResult.samples[k] = SourceRow(sheet, sampleResult.kept[k] + 1)

(* What holds of the list: every position shows the last row consumed.     *)
C26_EveryPositionShowsTheLastRowConsumed ==
    sampleResult.done =>
        \A k \in 1..Len(sampleResult.samples) :
            sampleResult.samples[k] = SourceRow(sheet, sampleResult.consumed)

(* Whether the watermark b is not earlier than the watermark a.            *)
NotEarlier(b, a) ==
    \/ a.modified_since.sec < b.modified_since.sec
    \/ /\ a.modified_since.sec = b.modified_since.sec
       /\ DateutilParse(a.modified_since).usec <= DateutilParse(b.modified_since).usec

StatesOfRun == SelectSeq(RunLog, IsState)

(* C27: within one run no state write stores a watermark earlier than the  *)
(* one the state write before it stored, whatever the lengths of the       *)
(* decimal strings the mailbox delivers as timestamps.                     *)
C27_WatermarkNeverGoesBackInARun ==
    \A k \in 2..Len(StatesOfRun) :
        NotEarlier(StatesOfRun[k].value, StatesOfRun[k - 1].value)

(* The same for mailboxes whose timestamps all have the same length.       *)
C27_WatermarkNeverGoesBackForEqualLengths ==
    (\A m, n \in 1..Len(mailbox) :
        Len(mailbox[m].internalDate) = Len(mailbox[n].internalDate)) =>
        \A k \in 2..Len(StatesOfRun) :
            NotEarlier(StatesOfRun[k].value, StatesOfRun[k - 1].value)

(* The epoch seconds of the after: clause that get_emails_for_table        *)
(* appends when a run starts from the stored state.                        *)
AfterClause == GetEpochTime(DateutilParse(state.modified_since))

(* The internal timestamp of the message whose file the previous run       *)
(* stamped last.                                                           *)
LastStamped == PyInt(lastRun.files_list[lastRun.fileIdx - 1].internal_date)

(* C28: when the previous run has written the watermark for a message with *)
(* internal timestamp t and the next run reads it back, the after: clause  *)
(* carries exactly floor(t / 1000), whatever the host's offset from UTC.   *)
C28_AfterClauseIsFloorOfTimestamp ==
    (pc = "start" /\ lastRun.fileIdx > 1) =>
        AfterClause = LastStamped \div MillisPerSecond

(* The same on a host whose local time is UTC.                             *)
C28_AfterClauseIsFloorOfTimestampInUtc ==
    (pc = "start" /\ lastRun.fileIdx > 1 /\ tzOffset = 0) =>
        AfterClause = LastStamped \div MillisPerSecond

(* What the round trip gives: the local wall clock read as UTC.            *)
C28_AfterClauseIsShiftedByTheOffset ==
    (pc = "start" /\ lastRun.fileIdx > 1) =>
        AfterClause = LastStamped \div MillisPerSecond + tzOffset

(* The references on the first k pages of the upstream.                    *)
ReferencesOnFirst(k) == Len(Flatten([i \in 1..k |-> responses[i].messages]))

(* The least number of pages that hold n references.                       *)
PagesNeeded(n) ==
    CHOOSE k \in 1..Len(responses) :
        /\ ReferencesOnFirst(k) >= n
        /\ \A j \in 1..(k - 1) : ReferencesOnFirst(j) < n

(* C29: a search capped at maxResults makes as many list calls as the      *)
(* least number of pages that hold min(maxResults, true_total) references, *)
(* and none after the last reference was yielded, also when that reference *)
(* ends a page that carries a nextPageToken (every page when the upstream  *)
(* holds fewer than maxResults).                                           *)
C29_NoListCallAfterTheCap ==
    (searchResult.done /\ max_search_results # None /\ max_search_results >= 1) =>
        Len(searchResult.list_calls) =
            IF max_search_results > TrueTotal THEN Len(responses)
            ELSE PagesNeeded(max_search_results)

(* The same when the cap falls inside a page, before its last reference.   *)
C29_NoListCallAfterACapInsideAPage ==
    (/\ searchResult.done /\ max_search_results # None /\ max_search_results >= 1
     /\ max_search_results < TrueTotal
     /\ ReferencesOnFirst(PagesNeeded(max_search_results)) > max_search_results) =>
        Len(searchResult.list_calls) = PagesNeeded(max_search_results)

(* The run has put nothing on the output stream.                           *)
NothingEmittedIn(r) == \A k \in 1..Len(emitted) : emitted[k].run # r

(* C30: sync_table changes no state entry but the one of its own table: no *)
(* step of it changes the entry of another table, and a call whose search  *)
(* matches no message, or whose messages hold no matching resource,        *)
(* returns with the own entry as the run found it and with no schema, no   *)
(* record and no state emitted.                                            *)
C30_OnlyTheOwnEntryChanges ==
    /\ [][otherTables' = otherTables]_vars
    /\ []((pc = "done" /\ files_list = <<>>) =>
            /\ NothingEmittedIn(run)
            /\ state = StateAtStartOf(run))

(* The first run wrote the table's watermark next to the stored watermark  *)
(* of the other table; the search of the second run matched no message and *)
(* the run returned.                                                       *)
C30_Witness ==
    /\ run = 2
    /\ pc = "done"
    /\ gmail_emails_list = <<>>
    /\ files_list = <<>>
    /\ NothingEmittedIn(run)
    /\ state.has
    /\ \A t \in DOMAIN otherTables : otherTables[t].has

=============================================================================
